---- MODULE Spec2Model ----
(***************************************************************************)
(* A state-machine model of the Telegram GPT relay bot (src/index.mjs, the *)
(* unified version at lines 625-1452): the two in-memory maps (sessions,   *)
(* chatLog), the role map, the optional PostgreSQL store, and the update   *)
(* handlers, split at the awaits where another handler can run.            *)
(*                                                                         *)
(* Strings are sequences of tokens.  A token is a record [k, n]: a literal *)
(* of the program (k is its text), a word of user text (n tells words      *)
(* apart), a URL, or n characters of fetched page text.  The program's     *)
(* Russian literals are written in English.                                *)
(***************************************************************************)
EXTENDS Integers, Sequences, FiniteSets, TLC

\* ------------------------------------------------------------------ bounds
MaxPushes == 18      \* pushHistory calls admitted in one behaviour of SpecHistory
MaxResets == 1       \* /reset commands in one behaviour of SpecHistory
MaxOther == 2        \* messages in the group chat in one behaviour of SpecHistory
MaxEvents == 3       \* updates admitted in one behaviour of the other specifications
MaxUrls == 4         \* URLs in one message text (one more than the program reads)
MaxPromptEvents == 5 \* updates admitted in one behaviour of SpecPrompt
MaxSearches == 2     \* /search commands in one behaviour of SpecSearch
MaxClock == 1        \* seconds that pass in one behaviour of SpecDb
MaxInbound == 2      \* messages admitted in one behaviour of SpecInbound
MaxLogAppends == 303 \* turns appended in one behaviour of SpecChatLog
MaxPosts == 2        \* /post commands in one behaviour of SpecPublish

\* ------------------------------------------------------- program constants
MAX_TURNS == 8
CHATLOG_CAP == 300
MAX_LINKS == 3
LINK_BUDGET == 3000
PAGE_BUDGET == 60000

\* ------------------------------------------------------------------ strings
Lit(s) == [k |-> s, n |-> 0]
Word(i) == [k |-> "word", n |-> i]
Url(i) == [k |-> "url", n |-> i]
Page(len) == [k |-> "page", n |-> len]
Num(i) == [k |-> "num", n |-> i]
NL == Lit("\n")

\* the left operand, even when it is the empty string
orElseNothing(val, placeholder) == val

\* val || placeholder on strings: the empty string is falsy
orElse(val, placeholder) == IF val = <<>> THEN placeholder ELSE val

\* String.prototype.toLowerCase on the words written with capital letters
toLowerCase(str) ==
  [i \in 1..Len(str) |->
     IF str[i] = Lit("Positive") THEN Lit("positive")
     ELSE IF str[i] = Lit("@GptBot") THEN Lit("@gptbot")
     ELSE IF str[i] = Lit("Negative") THEN Lit("negative")
     ELSE str[i]]

Min(a, b) == IF a < b THEN a ELSE b
Max(a, b) == IF a > b THEN a ELSE b

\* a word made of digits followed by letters, as in 12abc
NumWord(i) == [k |-> "numword", n |-> i]

\* /^\d+$/.test(tok): digits only, so no sign
isDigits(tok) == tok.k = "num" /\ tok.n >= 0

\* parseInt(tok, 10): the leading integer of the word, NaN when it has none
NaN == [nan |-> TRUE, val |-> 0]
parseInt(tok) == IF tok.k \in {"num", "numword"} THEN [nan |-> FALSE, val |-> tok.n] ELSE NaN

\* x || d on numbers: NaN and 0 are falsy
orNumber(x, d) == IF x.nan \/ x.val = 0 THEN d ELSE x.val

\* the number as it is, no clamping
clampNone(lo, hi, x) == x

\* Math.max(lo, Math.min(hi, x))
clamp(lo, hi, x) == Max(lo, Min(hi, x))

\* Array.prototype.slice(0, n) on a sequence
SliceSeq(s, n) == SubSeq(s, 1, Min(Len(s), n))
\* s.slice(-n): the last n elements
LastN(s, n) == IF Len(s) <= n THEN s ELSE SubSeq(s, Len(s) - n + 1, Len(s))

\* String.prototype.slice(0, n) on fetched page text, which is n characters long
SliceLen(len, n) == Min(len, n)

RECURSIVE JoinWith(_, _)
\* Array.prototype.join(sep) on a sequence of strings
JoinWith(parts, sep) ==
  IF parts = <<>> THEN <<>>
  ELSE IF Len(parts) = 1 THEN parts[1]
  ELSE parts[1] \o sep \o JoinWith(Tail(parts), sep)

\* Array.prototype.filter(Boolean) on strings: the empty string is falsy
FilterBoolean(parts) == SelectSeq(parts, LAMBDA p : p # <<>>)

\* ------------------------------------------------------------------ maps
MapSet(m, k, v) == [x \in DOMAIN m \cup {k} |-> IF x = k THEN v ELSE m[x]]
MapDelete(m, k) == [x \in DOMAIN m \ {k} |-> m[x]]
MapGet(m, k, dflt) == IF k \in DOMAIN m THEN m[k] ELSE dflt
EmptyMap == [x \in {} |-> 0]

\* ------------------------------------------------------------- the platform
Users == {"u1", "u2"}
Chats == {"p1", "p2", "g1"}
Channels == {"ch1", "ch2"}
\* ctx.chat.type: a private chat is the chat of one user with the bot
ChatType(c) ==
  IF c = "g1" THEN "supergroup" ELSE IF c \in Channels THEN "channel" ELSE "private"
Member(c, u) == \/ c = "g1"
                \/ c = "p1" /\ u = "u1"
                \/ c = "p2" /\ u = "u2"
\* the adapters that return null when their API key is not set
KeyedAdapters == {"braveSearch", "serpApiSearch", "bingSearch"}
BOT_USERNAME == "gptbot"
Mention == Lit("@gptbot")

VARIABLES
  pool,          \* TRUE iff DATABASE_URL is set (pool is not null)
  apiKeys,       \* the search adapters whose API key is set in the environment
  botUsername,   \* bot.options.username, "" until startup has fetched it
  sessions,      \* Map: getKey(ctx) -> array of {role, content}
  chatLog,       \* Map: chat id -> array of {role, content}
  sessionRoles,  \* Map: user id -> role name
  db,            \* the database tables, and how many queries were issued
  now,           \* Math.floor(Date.now()/1000)
  msgSeq,        \* the platform's last message id of each chat
  inflight,      \* handler invocations suspended at an await
  ev,            \* the update handled by the last step, and how it ended
  pushed,        \* history variable: the turns pushed to each key since it was last empty
  count          \* history variable: updates received and pushHistory calls so far

vars == <<pool, apiKeys, botUsername, sessions, chatLog, sessionRoles, db, now, msgSeq,
          inflight, ev, pushed, count>>

\* ------------------------------------------------------------ RAM session
\* getKey keyed by the chat alone
getKeyChatOnly(c, u) == <<c, "any">>

getKey(c, u) == <<c, u>>

Turn(role, content) == [role |-> role, content |-> content]

\* pushHistory with the cap tested one too late
pushHistoryLateCap(s, c, u, role, content) ==
  LET k == getKey(c, u)
      s1 == IF k \in DOMAIN s THEN s ELSE MapSet(s, k, <<>>)
      arr == Append(s1[k], Turn(role, content))
  IN MapSet(s1, k, IF Len(arr) > MAX_TURNS * 2 + 1 THEN Tail(arr) ELSE arr)

\* pushHistory with arr.pop() for arr.shift(): the newest turn is dropped
pushHistoryPop(s, c, u, role, content) ==
  LET k == getKey(c, u)
      s1 == IF k \in DOMAIN s THEN s ELSE MapSet(s, k, <<>>)
      arr == Append(s1[k], Turn(role, content))
  IN MapSet(s1, k, IF Len(arr) > MAX_TURNS * 2 THEN SubSeq(arr, 1, Len(arr) - 1) ELSE arr)

pushHistory(s, c, u, role, content) ==
  LET k == getKey(c, u)
      s1 == IF k \in DOMAIN s THEN s ELSE MapSet(s, k, <<>>)
      arr == Append(s1[k], Turn(role, content))
  IN MapSet(s1, k, IF Len(arr) > MAX_TURNS * 2 THEN Tail(arr) ELSE arr)

\* appendChatLog evicting as soon as the cap is reached
appendChatLogEarlyCap(l, c, role, content) ==
  LET arr == Append(MapGet(l, c, <<>>), Turn(role, content))
  IN MapSet(l, c, IF Len(arr) >= CHATLOG_CAP THEN Tail(arr) ELSE arr)

appendChatLog(l, c, role, content) ==
  LET arr == Append(MapGet(l, c, <<>>), Turn(role, content))
  IN MapSet(l, c, IF Len(arr) > CHATLOG_CAP THEN Tail(arr) ELSE arr)

\* the history variable's update that goes with a pushHistory call
notePush(p, c, u, role, content) ==
  [p EXCEPT ![<<c, u>>] = Append(@, Turn(role, content))]

\* ctx of a message update: ctx.chat.id, ctx.from.id, ctx.message
Ctx(c, u, text, replyToBot, mid) ==
  [chat |-> c, from |-> u, text |-> text, replyToBot |-> replyToBot, message_id |-> mid]

\* ensurePrivate letting every chat through
ensurePrivateAnywhere(c) == TRUE

\* ensurePrivate(ctx): ctx.chat.type === 'private'; the caller replies
\* PRIVATE_ONLY and returns when it is false
ensurePrivate(c) == ChatType(c) = "private"

Includes(text, tok) == \E i \in 1..Len(text) : text[i] = tok

\* addressedToMe with the mention test made whatever the username is
addressedToMeUnguarded(ctx) ==
  IF ChatType(ctx.chat) = "private" THEN TRUE
  ELSE IF Includes(toLowerCase(ctx.text), Mention) THEN TRUE
  ELSE IF ctx.replyToBot THEN TRUE
  ELSE FALSE

addressedToMe(ctx) ==
  IF ChatType(ctx.chat) = "private" THEN TRUE
  ELSE IF botUsername # "" /\ Includes(toLowerCase(ctx.text), Mention) THEN TRUE
  ELSE IF ctx.replyToBot THEN TRUE
  ELSE FALSE

\* ---------------------------------------------------------------------- DB
\* The tables of initSchema.  users: user_id -> row; chats: chat_id -> row;
\* user_channels: set of <<user_id, chat_id>>; messages: <<chat_id, message_id>>
\* -> row; reactions: sequence of rows, (chat_id, message_id, emoji, user_id) is
\* the primary key;
\* posts_log: sequence of rows (the key is a fresh uuid); summaries:
\* <<chat_id, ts>> -> summary.
EmptyDb ==
  [users |-> EmptyMap, chats |-> EmptyMap, user_channels |-> {},
   messages |-> EmptyMap, reactions |-> <<>>, posts_log |-> <<>>,
   summaries |-> EmptyMap, queries |-> 0]

\* dbQuery without its test of the pool
dbQueryNoGuard(d, after) == [after EXCEPT !.queries = d.queries + 1]

\* dbQuery(q, params): null without a pool, else the statement runs.  `after`
\* is the database once the statement of the caller has run on d.
dbQuery(d, after) ==
  IF ~pool THEN d ELSE [after EXCEPT !.queries = d.queries + 1]

\* what dbQuery returns to a SELECT: null without a pool, else {rows}
NullResult == [null |-> TRUE, rows |-> <<>>]
Rows(r) == [null |-> FALSE, rows |-> r]
dbSelect(d, r) == IF ~pool THEN NullResult ELSE Rows(r)

\* a value, or the exception that replaced it
Ok(v) == [threw |-> FALSE, val |-> v]
Threw == [threw |-> TRUE, val |-> <<>>]

upsertUser(d, from) ==
  IF ~pool THEN d
  ELSE dbQuery(d, [d EXCEPT !.users =
         IF from \in DOMAIN @ THEN @ ELSE MapSet(@, from, [system_prompt |-> <<>>])])

upsertChat(d, c, can_post) ==
  IF ~pool THEN d
  ELSE dbQuery(d, [d EXCEPT !.chats =
         MapSet(@, c, [type |-> ChatType(c), bot_can_post |-> can_post])])

linkUserChannel(d, u, c) ==
  IF ~pool THEN d
  ELSE dbQuery(d, [d EXCEPT !.user_channels = @ \cup {<<u, c>>}])

getUserChannels(d, u) ==
  IF ~pool THEN {}
  ELSE {uc[2] : uc \in {x \in d.user_channels : x[1] = u}}

storeMessageV2(d, c, mid, u, role, content, media_type) ==
  IF ~pool THEN d
  ELSE dbQuery(d, [d EXCEPT !.messages =
         IF <<c, mid>> \in DOMAIN @
         THEN [@ EXCEPT ![<<c, mid>>].content = content, ![<<c, mid>>].media_type = media_type]
         ELSE MapSet(@, <<c, mid>>,
                [user_id |-> u, role |-> role, content |-> content, media_type |-> media_type])])

\* the primary key of a row of reactions
reactionKey(row) == <<row.chat_id, row.message_id, row.emoji, row.user_id>>

\* INSERT INTO reactions with no ON CONFLICT clause taken into account
storeReactionAlways(d, c, mid, emoji, u) ==
  LET uid == IF u = "null" THEN "0" ELSE u
      row == [chat_id |-> c, message_id |-> mid, emoji |-> emoji, user_id |-> uid,
              ts |-> now]
  IN IF ~pool THEN d
     ELSE dbQuery(d, [d EXCEPT !.reactions = Append(@, row)])

\* storeReaction: uid = user_id ?? 0; INSERT ... ON CONFLICT(chat_id, message_id,
\* emoji, user_id) DO NOTHING
storeReaction(d, c, mid, emoji, u) ==
  LET uid == IF u = "null" THEN "0" ELSE u
      row == [chat_id |-> c, message_id |-> mid, emoji |-> emoji, user_id |-> uid,
              ts |-> now]
  IN IF ~pool THEN d
     ELSE dbQuery(d, [d EXCEPT !.reactions =
            IF \E i \in 1..Len(@) : reactionKey(@[i]) = reactionKey(row)
            THEN @ ELSE Append(@, row)])

logPost(d, c, mid, u, text, status) ==
  IF ~pool THEN d
  ELSE dbQuery(d, [d EXCEPT !.posts_log =
         Append(@, [chat_id |-> c, message_id |-> mid, user_id |-> u,
                    text |-> text, status |-> status])])

\* INSERT INTO summaries: (chat_id, ts) is the primary key, so a second summary of
\* one chat in the same second is rejected by the database
addSummaryConflicts(d, c) == pool /\ <<c, now>> \in DOMAIN d.summaries

addSummary(d, c, summary) ==
  IF ~pool THEN d
  ELSE dbQuery(d, [d EXCEPT !.summaries =
         IF <<c, now>> \in DOMAIN @ THEN @ ELSE MapSet(@, <<c, now>>, summary)])

\* SELECT summary ... WHERE chat_id=$1 ORDER BY ts DESC LIMIT 1; rows?.[0]?.summary || ''
lastSummary(d, c) ==
  IF ~pool THEN <<>>
  ELSE LET ts == {k[2] : k \in {x \in DOMAIN d.summaries : x[1] = c}}
       IN IF ts = {} THEN <<>>
          ELSE d.summaries[<<c, CHOOSE t \in ts : \A t2 \in ts : t2 <= t>>]

\* const { rows } = await dbQuery(...): destructuring null throws a TypeError
getUserProfile(d, u) ==
  LET res == dbSelect(d, IF u \in DOMAIN d.users THEN <<d.users[u]>> ELSE <<>>)
  IN IF res.null THEN Threw
     ELSE Ok(IF res.rows = <<>> THEN <<>> ELSE res.rows[1].system_prompt)

setUserProfile(d, u, text) ==
  dbQuery(d, [d EXCEPT !.users = MapSet(@, u, [system_prompt |-> text])])

\* the SELECTs of one step, counted as queries when there is a pool
countReads(d, n) == IF pool THEN [d EXCEPT !.queries = @ + n] ELSE d

\* ---------------------------------------------------------------- LLM utils
BASE_SYSTEM == <<Lit("BASE_SYSTEM")>>
RoleNames == {"analyst", "translator", "coder"}
\* ROLES[roleMode]: undefined (here the empty string) for any other name
ROLES(r) ==
  CASE r = "analyst" -> <<Lit("ROLES.analyst")>>
    [] r = "translator" -> <<Lit("ROLES.translator")>>
    [] r = "coder" -> <<Lit("ROLES.coder")>>
    [] OTHER -> <<>>
ROBOT == <<Lit("(robot emoji)")>>
NEUTRAL == <<Lit("neutral")>>
NoRole == "undefined"

\* (r.choices[0].message.content || NEUTRAL).toLowerCase()
sentiment(content) == toLowerCase(orElse(content, NEUTRAL))

IsUrl(tok) == tok.k = "url"
\* every URL of the text, none left out
matchUrlsAll(text) == SelectSeq(text, IsUrl)

\* (userText.match(URL_RE) || []).slice(0, 3)
matchUrls(text) == SliceSeq(SelectSeq(text, IsUrl), MAX_LINKS)

\* fetchAndClean(url): the length of the text it returns.  direct and reader are
\* what the two requests give: -1 when the request throws, else the length of the
\* page's text.  Both requests sit in a try with an empty catch, and the function
\* ends with return '', so it returns a string whatever the requests do
fetchAndClean(direct, reader) ==
  IF direct > 0 THEN Ok(SliceLen(direct, PAGE_BUDGET))
  ELSE IF reader >= 0 THEN Ok(SliceLen(reader, PAGE_BUDGET))
  ELSE Ok(0)

PageText(len) == IF len = 0 THEN <<>> ELSE <<Page(len)>>

\* parts.push(`[${u}] <content:>\n${txt.slice(0, 3000)}`)
contentPart(u, len) ==
  <<Lit("["), u, Lit("] content:"), NL>> \o PageText(SliceLen(len, LINK_BUDGET))

\* parts.push(`[${u}] <could not be fetched> (${e})`)
failurePart(u) == <<Lit("["), u, Lit("] could not be fetched ("), Lit("e"), Lit(")")>>

\* one round of the loop over urls: try { fetchAndClean } catch { the failure note }
linkPart(u, txt) == IF txt.threw THEN failurePart(u) ELSE contentPart(u, txt.val)

\* `\n\n---\n<Embedded links:>\n${parts.join('\n\n')}`
makeAddendum(parts) ==
  IF parts = <<>> THEN <<>>
  ELSE <<NL, NL, Lit("---"), NL, Lit("Embedded links:"), NL>> \o JoinWith(parts, <<NL, NL>>)

\* `<User writes> (<tone>: ${mood}):\n${userText}${addendum}`
makePrompt(mood, userText, addendum) ==
  <<Lit("User writes (tone: ")>> \o mood \o <<Lit("):"), NL>> \o userText \o addendum

\* buildMessages with the role instruction put before the profile
buildMessagesRoleFirst(profile, roleMode, sum, arr, userText) ==
  LET sys == JoinWith(FilterBoolean(<<
               BASE_SYSTEM,
               IF roleMode # NoRole THEN ROLES(roleMode) ELSE <<>>,
               IF profile # <<>> THEN <<Lit("User profile: ")>> \o profile ELSE <<>> >>), <<NL>>)
      m1 == <<Turn("system", sys)>>
      m2 == IF sum # <<>>
            THEN Append(m1, Turn("system", <<Lit("Chat memory: ")>> \o sum))
            ELSE m1
  IN Append(m2 \o arr, Turn("user", userText))

\* buildMessages(ctx, userText), once getUserProfile has returned `profile`
buildMessages(profile, roleMode, sum, arr, userText) ==
  LET sys == JoinWith(FilterBoolean(<<
               BASE_SYSTEM,
               IF profile # <<>> THEN <<Lit("User profile: ")>> \o profile ELSE <<>>,
               IF roleMode # NoRole THEN ROLES(roleMode) ELSE <<>> >>), <<NL>>)
      m1 == <<Turn("system", sys)>>
      m2 == IF sum # <<>>
            THEN Append(m1, Turn("system", <<Lit("Chat memory: ")>> \o sum))
            ELSE m1
  IN Append(m2 \o arr, Turn("user", userText))

\* ------------------------------------------------------------------ handlers
Keys == {<<c, u>> : c \in Chats, u \in Users}

\* sessions.get(getKey(ctx)) || []
Hist(c, u) == MapGet(sessions, getKey(c, u), <<>>)

\* what the last step did: the handler (op), the await it came back from (stage),
\* what it replied, whether the handler ended by throwing, and the length of the
\* caller's history before the step; target and data are the message id and the
\* word (emoji, callback data, channel) the handler was given, when it has them;
\* admin is whether the platform listed the bot among the administrators of the
\* channel during the step; gen is whether the reply carries text that a
\* completion request produced, and out is what that request returned; lookup
\* and llm are whether a command asked the platform for a chat and whether it
\* made a completion request; arg is the channel word /post was given, word
\* the count word /digest was given
Ev(op, stage, c, u, reply, threw, pre) ==
  [op |-> op, stage |-> stage, chat |-> c, from |-> u, reply |-> reply,
   threw |-> threw, pre |-> pre, target |-> 0, data |-> "", admin |-> FALSE,
   gen |-> FALSE, out |-> <<>>, lookup |-> FALSE, llm |-> FALSE, arg |-> "",
   word |-> <<>>]

NoInp == [profile |-> <<>>, roleMode |-> NoRole, sum |-> <<>>, arr |-> <<>>, userText |-> <<>>]

\* a handler invocation suspended at an await: where it is, and its locals
Handler(op, pc, ctx, userText) ==
  [op |-> op, ctx |-> ctx, pc |-> pc, userText |-> userText, mood |-> <<>>,
   urls |-> <<>>, parts |-> <<>>, fetched |-> <<>>, failed |-> <<>>, lens |-> <<>>,
   msgs |-> <<>>,
   inp |-> NoInp, replyText |-> <<>>, limit |-> 0, calls |-> <<>>, results |-> <<>>,
   gen |-> FALSE, raw |-> <<>>, chatId |-> "", mid |-> 0, done |-> 0]

Replace(h, h2) == (inflight \ {h}) \cup {h2}

\* bot.on('text'), up to the await of makeLLMReply
TextReceive(c, u, text, replyToBot) ==
  LET mid == msgSeq[c] + 1
      ctx == Ctx(c, u, text, replyToBot, mid)
      d == storeMessageV2(upsertChat(upsertUser(db, u), c, FALSE),
                          c, mid, u, "user", text, "text")
  IN /\ Member(c, u)
     /\ msgSeq' = [msgSeq EXCEPT ![c] = mid]
     /\ db' = d
     /\ sessions' = pushHistory(sessions, c, u, "user", text)
     /\ chatLog' = appendChatLog(chatLog, c, "user", text)
     /\ pushed' = notePush(pushed, c, u, "user", text)
     /\ count' = [count EXCEPT !.updates = @ + 1, !.pushes = @ + 1]
     /\ inflight' = IF addressedToMe(ctx)
                    THEN inflight \cup {Handler("text", "sentiment", ctx, text)}
                    ELSE inflight
     /\ ev' = Ev("text", "receive", c, u, <<>>, FALSE, Len(Hist(c, u)))
     /\ UNCHANGED <<pool, apiKeys, botUsername, sessionRoles, now>>

\* makeLLMReply: const mood = await sentiment(userText); the URLs of the text
Sentiment(h, out) ==
  /\ h \in inflight /\ h.pc = "sentiment"
  /\ IF out.threw
     THEN /\ inflight' = inflight \ {h}
          /\ ev' = Ev(h.op, "sentiment", h.ctx.chat, h.ctx.from, <<>>, TRUE, 0)
     ELSE LET urls == matchUrls(h.userText)
          IN /\ inflight' = Replace(h, [h EXCEPT !.mood = sentiment(out.val),
                                                 !.urls = urls,
                                                 !.pc = IF urls = <<>> THEN "build" ELSE "fetch"])
             /\ ev' = Ev(h.op, "sentiment", h.ctx.chat, h.ctx.from, <<>>, FALSE, 0)
  /\ UNCHANGED <<pool, apiKeys, botUsername, sessions, chatLog, sessionRoles, db, now, msgSeq,
                 pushed, count>>

\* makeLLMReply: one round of the loop over urls.  fetched, failed and lens record
\* the URL requested, whether both of its requests threw, and how long the text
\* that came back was
FetchUrl(h, direct, reader) ==
  /\ h \in inflight /\ h.pc = "fetch"
  /\ LET u == h.urls[Len(h.parts) + 1]
         txt == fetchAndClean(direct, reader)
         parts == Append(h.parts, linkPart(u, txt))
     IN inflight' = Replace(h, [h EXCEPT
          !.parts = parts,
          !.fetched = Append(@, u),
          !.lens = Append(@, txt.val),
          !.failed = Append(@, direct < 0 /\ reader < 0),
          !.pc = IF Len(parts) = Len(h.urls) THEN "build" ELSE "fetch"])
  /\ ev' = Ev(h.op, "fetch", h.ctx.chat, h.ctx.from, <<>>, FALSE, 0)
  /\ UNCHANGED <<pool, apiKeys, botUsername, sessions, chatLog, sessionRoles, db, now, msgSeq,
                 pushed, count>>

\* makeLLMReply: buildMessages, and the completion request is sent
Build(h) ==
  /\ h \in inflight /\ h.pc = "build"
  /\ LET c == h.ctx.chat
         u == h.ctx.from
         profile == getUserProfile(db, u)
         inp == [profile |-> profile.val, roleMode |-> MapGet(sessionRoles, u, NoRole),
                 sum |-> lastSummary(db, c), arr |-> Hist(c, u),
                 userText |-> makePrompt(h.mood, h.userText, makeAddendum(h.parts))]
     IN IF profile.threw
        THEN /\ inflight' = inflight \ {h}
             /\ ev' = Ev(h.op, "build", c, u, <<>>, TRUE, 0)
        ELSE /\ inflight' = Replace(h, [h EXCEPT
                  !.msgs = buildMessages(inp.profile, inp.roleMode, inp.sum, inp.arr,
                                         inp.userText),
                  !.inp = inp, !.pc = "complete"])
             /\ ev' = Ev(h.op, "build", c, u, <<>>, FALSE, 0)
  /\ db' = countReads(db, 2)
  /\ UNCHANGED <<pool, apiKeys, botUsername, sessions, chatLog, sessionRoles, now, msgSeq,
                 pushed, count>>

\* makeLLMReply: return r.choices[0].message.content || ROBOT
Complete(h, out) ==
  /\ h \in inflight /\ h.pc = "complete"
  /\ IF out.threw
     THEN /\ inflight' = inflight \ {h}
          /\ ev' = Ev(h.op, "complete", h.ctx.chat, h.ctx.from, <<>>, TRUE, 0)
     ELSE /\ inflight' = Replace(h, [h EXCEPT
               !.replyText = orElse(out.val, ROBOT), !.pc = "reply",
               !.gen = TRUE, !.raw = out.val])
          /\ ev' = Ev(h.op, "complete", h.ctx.chat, h.ctx.from, <<>>, FALSE, 0)
  /\ UNCHANGED <<pool, apiKeys, botUsername, sessions, chatLog, sessionRoles, db, now, msgSeq,
                 pushed, count>>

SEARCH_FAILED == <<Lit("The search could not be done now. Try later.")>>

\* replyAndStore(ctx, text): ctx.reply throws when the platform refuses the message;
\* /search catches that and replies that the search failed
\* replyAndStore records the turn whatever became of ctx.reply
storesWithoutReply(sent) == TRUE

\* replyAndStore: the statements after `await ctx.reply` run only when the
\* awaited call resolved; a rejection leaves the function there
storesAfterReply(sent) == sent

ReplyAndStore(h, sent) ==
  /\ h \in inflight /\ h.pc = "reply"
  /\ inflight' = inflight \ {h}
  /\ LET c == h.ctx.chat
         u == h.ctx.from
         mid == msgSeq[c] + 1
     IN /\ IF ~sent
           THEN /\ ev' = IF h.op = "search"
                         THEN Ev(h.op, "reply", c, u, SEARCH_FAILED, FALSE, Len(Hist(c, u)))
                         ELSE Ev(h.op, "reply", c, u, <<>>, TRUE, Len(Hist(c, u)))
                /\ msgSeq' = [msgSeq EXCEPT ![c] = IF h.op = "search" THEN mid ELSE @]
           ELSE /\ msgSeq' = [msgSeq EXCEPT ![c] = mid]
                /\ ev' = [Ev(h.op, "reply", c, u, h.replyText, FALSE, Len(Hist(c, u)))
                          EXCEPT !.gen = h.gen, !.out = h.raw]
        /\ IF ~storesAfterReply(sent)
           THEN UNCHANGED <<sessions, chatLog, db, pushed, count>>
           ELSE /\ db' = storeMessageV2(db, c, mid, "null", "assistant", h.replyText, "text")
                /\ sessions' = pushHistory(sessions, c, u, "assistant", h.replyText)
                /\ chatLog' = appendChatLog(chatLog, c, "assistant", h.replyText)
                /\ pushed' = notePush(pushed, c, u, "assistant", h.replyText)
                /\ count' = [count EXCEPT !.pushes = @ + 1]
  /\ UNCHANGED <<pool, apiKeys, botUsername, sessionRoles, now>>

\* what the media handlers put in the history, and the placeholders of their
\* empty results
VOICE == <<Lit("(voice)")>>
VIDEO_NOTE == <<Lit("(video_note)")>>
IMAGE == <<Lit("(image)")>>
EMPTY_TRANSCRIPT == <<Lit("(empty transcript)")>>
PICTURE == <<Lit("(picture emoji)")>>
MediaKinds == {"voice", "video_note"}

\* bot.on('voice') and bot.on('video_note') up to the test of addressedToMe:
\* linkOk is whether getFileLink answers
VoiceReceive(c, u, kind, linkOk, replyToBot) ==
  LET mid == msgSeq[c] + 1
      ctx == Ctx(c, u, <<>>, replyToBot, mid)
      content == IF kind = "voice" THEN VOICE ELSE VIDEO_NOTE
      d0 == upsertChat(upsertUser(db, u), c, FALSE)
  IN /\ Member(c, u)
     /\ kind \in MediaKinds
     /\ msgSeq' = [msgSeq EXCEPT ![c] = mid]
     /\ IF ~linkOk
        THEN /\ db' = d0
             /\ count' = [count EXCEPT !.updates = @ + 1]
             /\ ev' = Ev(kind, "link", c, u, <<>>, TRUE, Len(Hist(c, u)))
             /\ UNCHANGED <<sessions, chatLog, pushed, inflight>>
        ELSE /\ db' = storeMessageV2(d0, c, mid, u, "user", content, kind)
             /\ sessions' = pushHistory(sessions, c, u, "user", content)
             /\ chatLog' = appendChatLog(chatLog, c, "user", content)
             /\ pushed' = notePush(pushed, c, u, "user", content)
             /\ count' = [count EXCEPT !.updates = @ + 1, !.pushes = @ + 1]
             /\ inflight' = IF addressedToMe(ctx)
                            THEN inflight \cup {Handler(kind, "download", ctx, <<>>)}
                            ELSE inflight
             /\ ev' = Ev(kind, "receive", c, u, <<>>, FALSE, Len(Hist(c, u)))
     /\ UNCHANGED <<pool, apiKeys, botUsername, sessionRoles, now>>

\* bot.on('voice'), bot.on('video_note'): const buf = Buffer.from(await (await
\* fetch(link.href)).arrayBuffer())
Download(h, ok) ==
  /\ h \in inflight /\ h.pc = "download"
  /\ IF ok
     THEN /\ inflight' = Replace(h, [h EXCEPT !.pc = "transcribe"])
          /\ ev' = Ev(h.op, "download", h.ctx.chat, h.ctx.from, <<>>, FALSE, 0)
     ELSE /\ inflight' = inflight \ {h}
          /\ ev' = Ev(h.op, "download", h.ctx.chat, h.ctx.from, <<>>, TRUE, 0)
  /\ UNCHANGED <<pool, apiKeys, botUsername, sessions, chatLog, sessionRoles, db, now, msgSeq,
                 pushed, count>>

\* const tr = await openai.audio.transcriptions.create(...);
\* makeLLMReply(ctx, tr.text || EMPTY_TRANSCRIPT)
Transcribe(h, out) ==
  /\ h \in inflight /\ h.pc = "transcribe"
  /\ IF out.threw
     THEN /\ inflight' = inflight \ {h}
          /\ ev' = Ev(h.op, "transcribe", h.ctx.chat, h.ctx.from, <<>>, TRUE, 0)
     ELSE /\ inflight' = Replace(h, [h EXCEPT !.userText = orElse(out.val, EMPTY_TRANSCRIPT),
                                            !.pc = "sentiment"])
          /\ ev' = Ev(h.op, "transcribe", h.ctx.chat, h.ctx.from, <<>>, FALSE, 0)
  /\ UNCHANGED <<pool, apiKeys, botUsername, sessions, chatLog, sessionRoles, db, now, msgSeq,
                 pushed, count>>

\* bot.on('photo') up to the test of addressedToMe: the caption is stored, IMAGE
\* goes to the history
PhotoReceive(c, u, caption, linkOk, replyToBot) ==
  LET mid == msgSeq[c] + 1
      ctx == Ctx(c, u, caption, replyToBot, mid)
      d0 == upsertChat(upsertUser(db, u), c, FALSE)
  IN /\ Member(c, u)
     /\ msgSeq' = [msgSeq EXCEPT ![c] = mid]
     /\ IF ~linkOk
        THEN /\ db' = d0
             /\ count' = [count EXCEPT !.updates = @ + 1]
             /\ ev' = Ev("photo", "link", c, u, <<>>, TRUE, Len(Hist(c, u)))
             /\ UNCHANGED <<sessions, chatLog, pushed, inflight>>
        ELSE /\ db' = storeMessageV2(d0, c, mid, u, "user", caption, "photo")
             /\ sessions' = pushHistory(sessions, c, u, "user", IMAGE)
             /\ chatLog' = appendChatLog(chatLog, c, "user", IMAGE)
             /\ pushed' = notePush(pushed, c, u, "user", IMAGE)
             /\ count' = [count EXCEPT !.updates = @ + 1, !.pushes = @ + 1]
             /\ inflight' = IF addressedToMe(ctx)
                            THEN inflight \cup {Handler("photo", "describe", ctx, caption)}
                            ELSE inflight
             /\ ev' = Ev("photo", "receive", c, u, <<>>, FALSE, Len(Hist(c, u)))
     /\ UNCHANGED <<pool, apiKeys, botUsername, sessionRoles, now>>

\* bot.on('photo'): the completion that describes the picture;
\* replyText = r.choices[0].message.content || PICTURE
Describe(h, out) ==
  /\ h \in inflight /\ h.pc = "describe"
  /\ IF out.threw
     THEN /\ inflight' = inflight \ {h}
          /\ ev' = Ev(h.op, "complete", h.ctx.chat, h.ctx.from, <<>>, TRUE, 0)
     ELSE /\ inflight' = Replace(h, [h EXCEPT !.replyText = orElse(out.val, PICTURE),
                                            !.pc = "reply", !.gen = TRUE, !.raw = out.val])
          /\ ev' = Ev(h.op, "complete", h.ctx.chat, h.ctx.from, <<>>, FALSE, 0)
  /\ UNCHANGED <<pool, apiKeys, botUsername, sessions, chatLog, sessionRoles, db, now, msgSeq,
                 pushed, count>>

CONTEXT_CLEARED == <<Lit("Context cleared")>>

\* bot.command('reset')
ResetCmd(c, u, sent) ==
  /\ Member(c, u)
  /\ sessions' = MapDelete(sessions, getKey(c, u))
  /\ pushed' = [pushed EXCEPT ![<<c, u>>] = <<>>]
  /\ msgSeq' = [msgSeq EXCEPT ![c] = @ + (IF sent THEN 2 ELSE 1)]
  /\ count' = [count EXCEPT !.updates = @ + 1, !.resets = @ + 1]
  /\ ev' = Ev("reset", "reply", c, u, IF sent THEN CONTEXT_CLEARED ELSE <<>>, ~sent, Len(Hist(c, u)))
  /\ UNCHANGED <<pool, apiKeys, botUsername, chatLog, sessionRoles, db, now, inflight>>

\* app.listen callback: const me = await bot.telegram.getMe(); bot.options.username = me.username
Startup ==
  /\ botUsername = ""
  /\ botUsername' = BOT_USERNAME
  /\ ev' = Ev("startup", "none", "none", "none", <<>>, FALSE, 0)
  /\ UNCHANGED <<pool, apiKeys, sessions, chatLog, sessionRoles, db, now, msgSeq, inflight,
                 pushed, count>>

\* ----------------------------------------------------------------- commands
PROFILE_USAGE == <<Lit("Give the profile text: /setprofile your_style")>>
PROFILE_SAVED == <<Lit("Profile saved")>>
HISTORY_EMPTY == <<Lit("History is empty.")>>
DASH == <<Lit("-")>>
PRIVATE_ONLY == <<Lit("This command works only in a private chat.")>>
LINK_USAGE == <<Lit("Format: /linkchannel @channel_username or ID")>>
NOT_A_CHANNEL == <<Lit("This is not a channel.")>>
NOT_ADMIN == <<Lit("I am not an admin of the channel.")>>
LINK_FAILED == <<Lit("Could not find the channel or no rights.")>>
UNLINK_USAGE == <<Lit("Format: /unlinkchannel @channel_username or ID")>>
UNLINK_FAILED == <<Lit("Channel not found. Check the argument.")>>
POST_USAGE == <<Lit("Format: /post @channel Text of the post")>>
SEVERAL_CHANNELS == <<Lit("Several channels are linked. Name one: /post @channel Text")>>
CHANNEL_NOT_FOUND == <<Lit("Channel not found. Check /mychannels or /linkchannel.")>>
PUBLISHED == <<Lit("Published")>>
NOT_PUBLISHED == <<Lit("Could not publish. Give the bot the right Post Messages.")>>
REACT_USAGE == <<Lit("Reply to a message with the command: /react")>>
THUMBS_UP == "thumbs up"

\* one update was received in chat c and answered with `replies` messages
Answered(c, replies) ==
  /\ msgSeq' = [msgSeq EXCEPT ![c] = @ + 1 + replies]
  /\ count' = [count EXCEPT !.updates = @ + 1]

\* bot.command('setprofile'): text is what follows the command, trimmed
SetProfileCmd(c, u, text) ==
  /\ Member(c, u)
  /\ IF text = <<>>
     THEN /\ db' = db
          /\ ev' = Ev("setprofile", "reply", c, u, PROFILE_USAGE, FALSE, 0)
     ELSE /\ db' = setUserProfile(db, u, text)
          /\ ev' = Ev("setprofile", "reply", c, u, PROFILE_SAVED, FALSE, 0)
  /\ Answered(c, 1)
  /\ UNCHANGED <<pool, apiKeys, botUsername, sessions, chatLog, sessionRoles, now,
                 inflight, pushed>>

\* bot.action(/^mode:(.+)$/): v is the callback data after "mode:"
ModeAction(u, v) ==
  /\ sessionRoles' = IF v = "clear" THEN MapDelete(sessionRoles, u)
                     ELSE MapSet(sessionRoles, u, v)
  /\ count' = [count EXCEPT !.updates = @ + 1]
  /\ ev' = Ev("mode", "reply", "none", u, <<Lit(v)>>, FALSE, 0)
  /\ UNCHANGED <<pool, apiKeys, botUsername, sessions, chatLog, db, now, msgSeq,
                 inflight, pushed>>

\* bot.command('summary'): out is what the completion request gives
SummaryCmd(c, u, out) ==
  /\ Member(c, u)
  /\ LET arr == LastN(MapGet(chatLog, c, <<>>), 60)
         summary == orElse(out.val, DASH)
     IN IF arr = <<>>
        THEN /\ db' = db
             /\ Answered(c, 1)
             /\ ev' = Ev("summary", "reply", c, u, HISTORY_EMPTY, FALSE, 0)
        ELSE IF out.threw
        THEN /\ db' = db
             /\ Answered(c, 0)
             /\ ev' = Ev("summary", "complete", c, u, <<>>, TRUE, 0)
        ELSE IF addSummaryConflicts(db, c)
        THEN /\ db' = countReads(db, 1)
             /\ Answered(c, 0)
             /\ ev' = Ev("summary", "db", c, u, <<>>, TRUE, 0)
        ELSE /\ db' = addSummary(db, c, summary)
             /\ Answered(c, 1)
             /\ ev' = [Ev("summary", "reply", c, u, summary, FALSE, 0)
                       EXCEPT !.gen = TRUE, !.out = out.val]
  /\ UNCHANGED <<pool, apiKeys, botUsername, sessions, chatLog, sessionRoles, now,
                 inflight, pushed>>

\* ctx.telegram.getChat(arg): the chat a username or id names, "" when the call throws
getChat(arg) ==
  CASE arg = "@ch1" -> "ch1"
    [] arg = "@ch2" -> "ch2"
    [] arg = "@g1" -> "g1"
    [] OTHER -> ""

\* botIsAdmin trusting a lookup that failed
botIsAdminUnlessFailed(listed, lookupOk) == ~lookupOk \/ listed

\* botIsAdmin(chatId, tg): listed is whether getChatAdministrators lists the bot,
\* lookupOk whether getChatAdministrators and getMe answered; catch { return false }
botIsAdmin(listed, lookupOk) == IF lookupOk THEN listed ELSE FALSE

\* bot.command('linkchannel'): arg is what follows the command
LinkChannelCmd(c, u, arg, listed, lookupOk) ==
  /\ Member(c, u)
  /\ LET chat == getChat(arg)
         admin == botIsAdmin(listed, lookupOk)
         reply == IF ~ensurePrivate(c) THEN PRIVATE_ONLY
                  ELSE IF arg = "" THEN LINK_USAGE
                  ELSE IF chat = "" THEN LINK_FAILED
                  ELSE IF ChatType(chat) # "channel" THEN NOT_A_CHANNEL
                  ELSE IF ~admin THEN NOT_ADMIN
                  ELSE <<Lit("Channel linked: "), Lit(chat)>>
     IN /\ db' = IF reply[1] = Lit("Channel linked: ")
                 THEN linkUserChannel(upsertUser(upsertChat(db, chat, TRUE), u), u, chat)
                 ELSE db
        /\ ev' = [Ev("linkchannel", "reply", c, u, reply, FALSE, 0)
                  EXCEPT !.data = arg, !.admin = listed /\ lookupOk,
                         !.lookup = ensurePrivate(c) /\ arg # ""]
  /\ Answered(c, 1)
  /\ UNCHANGED <<pool, apiKeys, botUsername, sessions, chatLog, sessionRoles, now,
                 inflight, pushed>>

\* bot.command('mychannels'): the list of the channels linked to the user
NO_CHANNELS == <<Lit("No linked channels. Use /linkchannel @channel")>>
RECURSIVE channelLines(_)
channelLines(set) ==
  IF set = {} THEN <<>>
  ELSE LET ch == CHOOSE x \in set : TRUE
       IN <<NL, Lit(ch)>> \o channelLines(set \ {ch})

MyChannelsCmd(c, u) ==
  /\ Member(c, u)
  /\ LET rows == getUserChannels(db, u)
         reply == IF ~ensurePrivate(c) THEN PRIVATE_ONLY
                  ELSE IF rows = {} THEN NO_CHANNELS
                  ELSE <<Lit("Your channels:")>> \o channelLines(rows)
     IN /\ db' = IF ensurePrivate(c) THEN countReads(db, 1) ELSE db
        /\ ev' = Ev("mychannels", "reply", c, u, reply, FALSE, 0)
  /\ Answered(c, 1)
  /\ UNCHANGED <<pool, apiKeys, botUsername, sessions, chatLog, sessionRoles, now,
                 inflight, pushed>>

\* bot.command('unlinkchannel'): DELETE FROM user_channels WHERE user_id, chat_id
UnlinkChannelCmd(c, u, arg) ==
  /\ Member(c, u)
  /\ LET chat == getChat(arg)
         reply == IF ~ensurePrivate(c) THEN PRIVATE_ONLY
                  ELSE IF arg = "" THEN UNLINK_USAGE
                  ELSE IF chat = "" THEN UNLINK_FAILED
                  ELSE <<Lit("Channel unlinked: "), Lit(chat)>>
     IN /\ db' = IF reply[1] = Lit("Channel unlinked: ")
                 THEN dbQuery(db, [db EXCEPT !.user_channels = @ \ {<<u, chat>>}])
                 ELSE db
        /\ ev' = [Ev("unlinkchannel", "reply", c, u, reply, FALSE, 0)
                  EXCEPT !.data = arg, !.lookup = ensurePrivate(c) /\ arg # ""]
  /\ Answered(c, 1)
  /\ UNCHANGED <<pool, apiKeys, botUsername, sessions, chatLog, sessionRoles, now,
                 inflight, pushed>>

\* bot.command('post') and sendPostToChannel: chan is the first word when it names
\* a chat ("" when the text has none), text is the rest, sendOk is whether the
\* platform accepts the message
\* the first linked channel, however many there are
pickFirstChannel(list) == IF list = {} THEN "" ELSE CHOOSE x \in list : TRUE

\* if (list.length === 1) chatId = list[0].chat_id; "" stands for the null that
\* chatId keeps otherwise
pickOnlyChannel(list) == IF Cardinality(list) = 1 THEN CHOOSE x \in list : TRUE ELSE ""

PostCmd(c, u, chan, text, sendOk) ==
  /\ Member(c, u)
  /\ text = <<>> => ~sendOk
  /\ LET list == getUserChannels(db, u)
         d0 == IF chan = "" /\ text # <<>> THEN countReads(db, 1) ELSE db
         chatId == IF chan # "" THEN getChat(chan) ELSE pickOnlyChannel(list)
         mid == msgSeq[chatId] + 1
     IN IF chan = "" /\ text = <<>>
        THEN /\ db' = db
             /\ msgSeq' = [msgSeq EXCEPT ![c] = @ + 2]
             /\ ev' = Ev("post", "reply", c, u, POST_USAGE, FALSE, 0)
        ELSE IF chan = "" /\ chatId = ""
        THEN /\ db' = d0
             /\ msgSeq' = [msgSeq EXCEPT ![c] = @ + 2]
             /\ ev' = Ev("post", "reply", c, u, SEVERAL_CHANNELS, FALSE, 0)
        ELSE IF chatId = ""
        THEN /\ db' = d0
             /\ msgSeq' = [msgSeq EXCEPT ![c] = @ + 2]
             /\ ev' = [Ev("post", "reply", c, u, CHANNEL_NOT_FOUND, FALSE, 0)
                       EXCEPT !.arg = chan]
        ELSE IF ~sendOk
        THEN /\ db' = logPost(d0, chatId, 0, u, text, "failed")
             /\ msgSeq' = [msgSeq EXCEPT ![c] = @ + 2]
             /\ ev' = [Ev("post", "reply", c, u, NOT_PUBLISHED, FALSE, 0)
                       EXCEPT !.arg = chan]
        ELSE /\ db' = storeMessageV2(logPost(d0, chatId, mid, u, text, "sent"),
                                     chatId, mid, "null", "assistant", text, "text")
             /\ msgSeq' = [x \in DOMAIN msgSeq |->
                             msgSeq[x] + (IF x = c THEN 2 ELSE 0) + (IF x = chatId THEN 1 ELSE 0)]
             /\ ev' = [Ev("post", "reply", c, u, PUBLISHED, FALSE, 0)
                       EXCEPT !.data = chatId, !.arg = chan]
  /\ count' = [count EXCEPT !.updates = @ + 1]
  /\ UNCHANGED <<pool, apiKeys, botUsername, sessions, chatLog, sessionRoles, now,
                 inflight, pushed>>

\* reactToMessage(chat_id, message_id, [emoji], fromUserId): a failure of
\* setMessageReaction is caught and logged, then the reaction is stored
reactToMessage(d, c, mid, emoji, fromUserId) == storeReaction(d, c, mid, emoji, fromUserId)

\* bot.command('react') and reactToMessage: emo is the second word ("" when there
\* is none), tgt the id of the message replied to (0 when there is none), apiOk
\* whether setMessageReaction succeeds; its failure is logged and swallowed
ReactCmd(c, u, emo, tgt, apiOk) ==
  /\ Member(c, u)
  /\ IF tgt = 0
     THEN /\ db' = db
          /\ Answered(c, 1)
          /\ ev' = Ev("react", "reply", c, u, REACT_USAGE, FALSE, 0)
     ELSE LET emoji == IF emo = "" THEN THUMBS_UP ELSE emo
          IN /\ db' = reactToMessage(db, c, tgt, emoji, u)
             /\ Answered(c, 0)
             /\ ev' = [Ev("react", IF apiOk THEN "done" ELSE "warned", c, u, <<>>, FALSE, 0)
                       EXCEPT !.target = tgt, !.data = emoji]
  /\ UNCHANGED <<pool, apiKeys, botUsername, sessions, chatLog, sessionRoles, now,
                 inflight, pushed>>

\* reactToMessage(chat_id, message_id, [emoji]) called with no fromUserId: the
\* default null is what storeReaction gets.  /react always passes ctx.from.id
ReactToMessageCall(c, mid, emo, apiOk) ==
  /\ db' = reactToMessage(db, c, mid, emo, "null")
  /\ ev' = [Ev("reactToMessage", IF apiOk THEN "done" ELSE "warned", c, "null", <<>>,
               FALSE, 0) EXCEPT !.target = mid, !.data = emo]
  /\ count' = [count EXCEPT !.updates = @ + 1]
  /\ UNCHANGED <<pool, apiKeys, botUsername, sessions, chatLog, sessionRoles, now,
                 msgSeq, inflight, pushed>>

\* the clock: one second passes
Tick ==
  /\ now' = now + 1
  /\ ev' = Ev("tick", "none", "none", "none", <<>>, FALSE, 0)
  /\ UNCHANGED <<pool, apiKeys, botUsername, sessions, chatLog, sessionRoles, db,
                 msgSeq, inflight, pushed, count>>

\* ------------------------------------------------------------------- search
SEARCH_USAGE == <<Lit("Format: /search your_query [number_of_links]")>>
NOTHING_FOUND == <<Lit("Nothing found.")>>
LONG_DASH == <<Lit("(long dash)")>>
DEFAULT_LIMIT == 5
MIN_LIMIT == 3
MAX_LIMIT == 10

\* the chain with the keyless adapter tried first
ChainKeylessFirst == <<"duckDuckGoSearch", "braveSearch", "serpApiSearch", "bingSearch">>

\* const chain = [braveSearch, serpApiSearch, bingSearch, duckDuckGoSearch]
Chain == <<"braveSearch", "serpApiSearch", "bingSearch", "duckDuckGoSearch">>

\* what an adapter gives: null, an exception, or a list of {title, url, snippet}
PNull == [threw |-> FALSE, null |-> TRUE, val |-> <<>>]
PThrew == [threw |-> TRUE, null |-> FALSE, val |-> <<>>]
POk(list) == [threw |-> FALSE, null |-> FALSE, val |-> list]
Item(fn, i) == [title |-> <<Lit(fn), Word(i)>>, url |-> <<Url(i)>>, snippet |-> <<>>]

\* braveSearch, serpApiSearch, bingSearch, duckDuckGoSearch: null without the key;
\* else the request is made, and out is what the provider answers to it
callAdapter(fn, out, limit) ==
  IF fn \in KeyedAdapters /\ fn \notin apiKeys THEN PNull
  ELSE IF out.threw THEN PThrew
  ELSE POk(SliceSeq(out.val, limit))

\* webSearch returning whatever list an adapter gives, empty or not
adapterAnswered(res) == ~res.threw /\ ~res.null

\* webSearch: if (res && res.length) return res
isHit(res) == ~res.threw /\ ~res.null /\ Len(res.val) > 0

\* sources.map(s => `[${s.n}] ${s.title}\n${s.url}`).join('\n')
sourcesTail(results) ==
  JoinWith([i \in 1..Len(results) |->
              <<Lit("["), Num(i), Lit("] ")>> \o results[i].title \o <<NL>> \o results[i].url],
           <<NL>>)

\* `${summary}\n\n<Sources:>\n${tail}`
searchReply(summary, results) ==
  summary \o <<NL, NL, Lit("Sources:"), NL>> \o sourcesTail(results)

\* the limit of /search: the last word when it is a number, clamped
searchLimit(rest) ==
  IF isDigits(rest[Len(rest)])
  THEN clamp(MIN_LIMIT, MAX_LIMIT, parseInt(rest[Len(rest)]).val)
  ELSE DEFAULT_LIMIT

searchQuery(rest) ==
  IF isDigits(rest[Len(rest)]) THEN SubSeq(rest, 1, Len(rest) - 1) ELSE rest

\* bot.command('search'), up to the first adapter: rest is the words after the command
SearchCmd(c, u, rest) ==
  /\ Member(c, u)
  /\ LET mid == msgSeq[c] + 1
         ctx == Ctx(c, u, rest, FALSE, mid)
     IN IF rest = <<>>
        THEN /\ msgSeq' = [msgSeq EXCEPT ![c] = mid + 1]
             /\ inflight' = inflight
             /\ ev' = Ev("search", "reply", c, u, SEARCH_USAGE, FALSE, 0)
        ELSE /\ msgSeq' = [msgSeq EXCEPT ![c] = mid]
             /\ inflight' = inflight \cup
                  {[Handler("search", "adapter", ctx, searchQuery(rest))
                     EXCEPT !.limit = searchLimit(rest)]}
             /\ ev' = Ev("search", "receive", c, u, <<>>, FALSE, 0)
  /\ count' = [count EXCEPT !.updates = @ + 1]
  /\ UNCHANGED <<pool, apiKeys, botUsername, sessions, chatLog, sessionRoles, db, now,
                 pushed>>

\* webSearch: one round of the loop over the chain; makeWebAnswer's answer when
\* the loop ends with nothing
SearchAdapter(h, out) ==
  /\ h \in inflight /\ h.pc = "adapter"
  /\ LET fn == Chain[Len(h.calls) + 1]
         res == callAdapter(fn, out, h.limit)
         calls == Append(h.calls, [fn |-> fn, res |-> res])
     IN inflight' = Replace(h,
          IF isHit(res)
          THEN [h EXCEPT !.calls = calls, !.results = res.val, !.pc = "answer"]
          ELSE IF Len(calls) = Len(Chain)
          THEN [h EXCEPT !.calls = calls, !.results = <<>>, !.pc = "reply",
                         !.replyText = searchReply(NOTHING_FOUND, <<>>)]
          ELSE [h EXCEPT !.calls = calls])
  /\ ev' = Ev(h.op, "adapter", h.ctx.chat, h.ctx.from, <<>>, FALSE, 0)
  /\ UNCHANGED <<pool, apiKeys, botUsername, sessions, chatLog, sessionRoles, db, now,
                 msgSeq, pushed, count>>

\* makeWebAnswer once the pages are read: out is what the completion request gives;
\* when it throws, the catch of the command replies that the search failed
SearchAnswer(h, out) ==
  /\ h \in inflight /\ h.pc = "answer"
  /\ IF out.threw
     THEN /\ inflight' = inflight \ {h}
          /\ msgSeq' = [msgSeq EXCEPT ![h.ctx.chat] = @ + 1]
          /\ ev' = Ev(h.op, "complete", h.ctx.chat, h.ctx.from, SEARCH_FAILED, FALSE, 0)
     ELSE /\ inflight' = Replace(h, [h EXCEPT !.pc = "reply",
               !.replyText = searchReply(orElse(out.val, LONG_DASH), h.results),
               !.gen = TRUE, !.raw = out.val])
          /\ msgSeq' = msgSeq
          /\ ev' = Ev(h.op, "complete", h.ctx.chat, h.ctx.from, <<>>, FALSE, 0)
  /\ UNCHANGED <<pool, apiKeys, botUsername, sessions, chatLog, sessionRoles, db, now,
                 pushed, count>>

\* ------------------------------------------------------------------ publish
\* sendPostToChannel with the message row written before the log row
sendPostWritesStoreFirst == <<"store", "log">>

\* sendPostToChannel: the statements that follow the send, in program order:
\* await logPost({... status:'sent'}); await storeMessageV2({...})
sendPostWrites == <<"log", "store">>

\* bot.command('post') up to the call of sendPostToChannel, one step per await
\* from there on.  chatId, mid and done are the channel, the id of the message
\* the platform returned and the number of writes made after the send
PostStart(c, u, chan, text) ==
  /\ Member(c, u)
  /\ LET list == getUserChannels(db, u)
         chatId == IF chan # "" THEN getChat(chan) ELSE pickOnlyChannel(list)
         mid == msgSeq[c] + 1
         refusal == IF chan = "" /\ text = <<>> THEN POST_USAGE
                    ELSE IF chan = "" /\ chatId = "" THEN SEVERAL_CHANNELS
                    ELSE IF chatId = "" THEN CHANNEL_NOT_FOUND
                    ELSE <<>>
     IN /\ db' = IF chan = "" /\ text # <<>> THEN countReads(db, 1) ELSE db
        /\ IF refusal # <<>>
           THEN /\ msgSeq' = [msgSeq EXCEPT ![c] = mid + 1]
                /\ inflight' = inflight
                /\ ev' = [Ev("post", "reply", c, u, refusal, FALSE, 0) EXCEPT !.arg = chan]
           ELSE /\ msgSeq' = [msgSeq EXCEPT ![c] = mid]
                /\ inflight' = inflight \cup
                     {[Handler("post", "send", Ctx(c, u, text, FALSE, mid), text)
                        EXCEPT !.chatId = chatId]}
                /\ ev' = [Ev("post", "receive", c, u, <<>>, FALSE, 0) EXCEPT !.arg = chan]
  /\ count' = [count EXCEPT !.updates = @ + 1]
  /\ UNCHANGED <<pool, apiKeys, botUsername, sessions, chatLog, sessionRoles, now, pushed>>

\* const msg = await bot.telegram.sendMessage(chatId, text, ...): sendOk is whether
\* the platform accepts the message; a refusal goes to the catch
PostSend(h, sendOk) ==
  /\ h \in inflight /\ h.op = "post" /\ h.pc = "send"
  /\ h.userText = <<>> => ~sendOk
  /\ LET mid == msgSeq[h.chatId] + 1
     IN IF sendOk
        THEN /\ msgSeq' = [msgSeq EXCEPT ![h.chatId] = mid]
             /\ inflight' = Replace(h, [h EXCEPT !.mid = mid, !.pc = "write"])
             /\ ev' = [Ev("post", "send", h.ctx.chat, h.ctx.from, <<>>, FALSE, 0)
                       EXCEPT !.data = h.chatId, !.target = mid]
        ELSE /\ msgSeq' = msgSeq
             /\ inflight' = Replace(h, [h EXCEPT !.pc = "catch"])
             /\ ev' = [Ev("post", "send", h.ctx.chat, h.ctx.from, <<>>, FALSE, 0)
                       EXCEPT !.data = h.chatId]
  /\ UNCHANGED <<pool, apiKeys, botUsername, sessions, chatLog, sessionRoles, db, now,
                 pushed, count>>

\* the next write after the send: dbOk is whether the statement succeeds; when it
\* throws, control goes to the catch.  Without a pool both writes return at once
PostWrite(h, dbOk) ==
  /\ h \in inflight /\ h.op = "post" /\ h.pc = "write"
  /\ ~pool => dbOk
  /\ LET stmt == sendPostWrites[h.done + 1]
     IN IF dbOk
        THEN /\ db' = IF stmt = "log"
                      THEN logPost(db, h.chatId, h.mid, h.ctx.from, h.userText, "sent")
                      ELSE storeMessageV2(db, h.chatId, h.mid, "null", "assistant",
                                          h.userText, "text")
             /\ inflight' = Replace(h, [h EXCEPT !.done = @ + 1,
                  !.pc = IF h.done + 1 = Len(sendPostWrites) THEN "reply" ELSE "write",
                  !.replyText = PUBLISHED])
        ELSE /\ db' = db
             /\ inflight' = Replace(h, [h EXCEPT !.pc = "catch"])
  /\ ev' = [Ev("post", "write", h.ctx.chat, h.ctx.from, <<>>, FALSE, 0)
            EXCEPT !.data = h.chatId, !.target = h.mid]
  /\ UNCHANGED <<pool, apiKeys, botUsername, sessions, chatLog, sessionRoles, now, msgSeq,
                 pushed, count>>

\* catch(e){ await logPost({... message_id:null, status:'failed' ...}); throw e; }
\* whether this logPost succeeds or throws, an exception reaches the catch of
\* the command
PostCatch(h, dbOk) ==
  /\ h \in inflight /\ h.op = "post" /\ h.pc = "catch"
  /\ ~pool => dbOk
  /\ db' = IF dbOk THEN logPost(db, h.chatId, 0, h.ctx.from, h.userText, "failed") ELSE db
  /\ inflight' = Replace(h, [h EXCEPT !.pc = "reply", !.replyText = NOT_PUBLISHED])
  /\ ev' = [Ev("post", "catch", h.ctx.chat, h.ctx.from, <<>>, FALSE, 0)
            EXCEPT !.data = h.chatId, !.target = h.mid]
  /\ UNCHANGED <<pool, apiKeys, botUsername, sessions, chatLog, sessionRoles, now, msgSeq,
                 pushed, count>>

\* try { ...; await ctx.reply(PUBLISHED) } catch { await ctx.reply(NOT_PUBLISHED) }:
\* sent is whether the platform accepts the reply
PostReply(h, sent) ==
  /\ h \in inflight /\ h.op = "post" /\ h.pc = "reply"
  /\ IF sent
     THEN /\ inflight' = inflight \ {h}
          /\ msgSeq' = [msgSeq EXCEPT ![h.ctx.chat] = @ + 1]
          /\ ev' = [Ev("post", "reply", h.ctx.chat, h.ctx.from, h.replyText, FALSE, 0)
                    EXCEPT !.data = h.chatId, !.target = h.mid]
     ELSE IF h.replyText = PUBLISHED
     THEN /\ inflight' = Replace(h, [h EXCEPT !.replyText = NOT_PUBLISHED])
          /\ msgSeq' = msgSeq
          /\ ev' = [Ev("post", "reply", h.ctx.chat, h.ctx.from, <<>>, FALSE, 0)
                    EXCEPT !.data = h.chatId, !.target = h.mid]
     ELSE /\ inflight' = inflight \ {h}
          /\ msgSeq' = msgSeq
          /\ ev' = [Ev("post", "reply", h.ctx.chat, h.ctx.from, <<>>, TRUE, 0)
                    EXCEPT !.data = h.chatId, !.target = h.mid]
  /\ UNCHANGED <<pool, apiKeys, botUsername, sessions, chatLog, sessionRoles, db, now,
                 pushed, count>>

\* the process dies and is started again: what is in memory is lost, the
\* database stays
Crash ==
  /\ inflight # {}
  /\ inflight' = {}
  /\ sessions' = EmptyMap
  /\ chatLog' = EmptyMap
  /\ sessionRoles' = EmptyMap
  /\ botUsername' = ""
  /\ ev' = Ev("crash", "none", "none", "none", <<>>, FALSE, 0)
  /\ UNCHANGED <<pool, apiKeys, db, now, msgSeq, pushed, count>>

\* ------------------------------------------------------------------- digest
DIGEST_USAGE == <<Lit("Format: /digest @channel 50 (50 by default)")>>
DIGEST_NOT_CHANNEL == <<Lit("Name a channel: @username or ID.")>>
DIGEST_NO_POSTS == <<Lit("No posts of this channel in the database.")>>
DIGEST_ERROR == <<Lit("Error. Check @channel and that the bot is in the channel.")>>

\* bot.on('channel_post') for a post without a photo
ChannelPost(ch, text) ==
  LET mid == msgSeq[ch] + 1
  IN /\ ChatType(ch) = "channel"
     /\ msgSeq' = [msgSeq EXCEPT ![ch] = mid]
     /\ db' = storeMessageV2(upsertChat(db, ch, TRUE), ch, mid, "null", "channel", text, "text")
     /\ count' = [count EXCEPT !.updates = @ + 1]
     /\ ev' = Ev("channel_post", "receive", ch, "none", <<>>, FALSE, 0)
     /\ UNCHANGED <<pool, apiKeys, botUsername, sessions, chatLog, sessionRoles, now,
                    inflight, pushed>>

\* SELECT content, media_type FROM messages WHERE chat_id = $1 AND role = 'channel'
channelPosts(d, ch) == {k \in DOMAIN d.messages : k[1] = ch /\ d.messages[k].role = "channel"}

\* ORDER BY ts DESC LIMIT n: the n newest of the rows
newest(rows, n) == {k \in rows : Cardinality({j \in rows : j[2] > k[2]}) < n}

DIGEST_DEFAULT == 50
DIGEST_MIN == 5
DIGEST_MAX == 200

\* N = Math.max(5, Math.min(200, parseInt(parts[1] || '50', 10) || 50)); nword is
\* parts[1] as a string of at most one word
digestCount(nword) ==
  clamp(DIGEST_MIN, DIGEST_MAX,
        orNumber(parseInt(IF nword = <<>> THEN Num(DIGEST_DEFAULT) ELSE nword[1]),
                 DIGEST_DEFAULT))

\* bot.command('digest'): target is the first word after the command, nword the
\* second, out is what the completion request gives.  Without a pool dbQuery
\* returns null and destructuring it throws into the catch of the command
DigestCmd(c, u, target, nword, out) ==
  /\ Member(c, u)
  /\ target = "" => nword = <<>>
  /\ LET chat == getChat(target)
         N == digestCount(nword)
         queried == ensurePrivate(c) /\ target # "" /\ chat # ""
                      /\ ChatType(chat) = "channel"
         rows == dbSelect(db, newest(channelPosts(db, chat), N))
         digest == orElse(out.val, LONG_DASH)
         generated == queried /\ ~rows.null /\ rows.rows # {} /\ ~out.threw
         reply == IF ~ensurePrivate(c) THEN PRIVATE_ONLY
                  ELSE IF target = "" THEN DIGEST_USAGE
                  ELSE IF chat = "" THEN DIGEST_ERROR
                  ELSE IF ChatType(chat) # "channel" THEN DIGEST_NOT_CHANNEL
                  ELSE IF rows.null THEN DIGEST_ERROR
                  ELSE IF rows.rows = {} THEN DIGEST_NO_POSTS
                  ELSE IF out.threw THEN DIGEST_ERROR
                  ELSE digest
     IN /\ db' = IF queried THEN countReads(db, 1) ELSE db
        /\ ev' = [Ev("digest", "reply", c, u, reply, FALSE, 0)
                  EXCEPT !.data = target, !.gen = generated, !.word = nword,
                         !.target = IF ensurePrivate(c) /\ target # "" THEN N ELSE 0,
                         !.lookup = ensurePrivate(c) /\ target # "",
                         !.llm = queried /\ ~rows.null /\ rows.rows # {},
                         !.out = IF generated THEN out.val ELSE <<>>]
  /\ Answered(c, 1)
  /\ UNCHANGED <<pool, apiKeys, botUsername, sessions, chatLog, sessionRoles, now,
                 inflight, pushed>>

\* ------------------------------------------------------------ specifications
Init ==
  /\ pool \in BOOLEAN
  /\ apiKeys \in SUBSET KeyedAdapters
  /\ botUsername = ""
  /\ sessions = EmptyMap
  /\ chatLog = EmptyMap
  /\ sessionRoles = EmptyMap
  /\ db = EmptyDb
  /\ now = 0
  /\ msgSeq = [c \in Chats \cup Channels |-> 0]
  /\ inflight = {}
  /\ ev = Ev("none", "none", "none", "none", <<>>, FALSE, 0)
  /\ pushed = [k \in Keys |-> <<>>]
  /\ count = [updates |-> 0, pushes |-> 0, resets |-> 0]

ANSWER == <<Lit("answer")>>
Completions == {Ok(ANSWER), Ok(<<>>), Threw}

\* SpecHistory: one user in a private chat and the members of a group write
\* numbered messages, one handler at a time, and reset
HistoryText(c, u) == <<Word(Len(pushed[<<c, u>>]) + 1)>>

HistoryKeys == {<<"p1", "u1">>, <<"g1", "u1">>, <<"g1", "u2">>}

NextHistory ==
  \/ /\ count.pushes < MaxPushes
     /\ inflight = {}
     /\ \E k \in HistoryKeys, r \in BOOLEAN :
          /\ k[1] = "g1" => msgSeq["g1"] < MaxOther
          /\ k[1] = "p1" => ~r
          /\ TextReceive(k[1], k[2], HistoryText(k[1], k[2]), r)
  \/ \E h \in inflight : Sentiment(h, Ok(<<>>))
  \/ \E h \in inflight : Build(h)
  \/ \E h \in inflight : Complete(h, Ok(ANSWER))
  \/ \E h \in inflight : ReplyAndStore(h, TRUE)
  \/ /\ inflight = {}
     /\ count.resets < MaxResets
     /\ \E k \in HistoryKeys : ResetCmd(k[1], k[2], TRUE)

\* DATABASE_URL is set
InitWithDb == Init /\ pool /\ apiKeys = {}

SpecHistory == InitWithDb /\ [][NextHistory]_vars

\* SpecSession: two users write in a private chat and in the group and reset,
\* with several handlers in flight at once
SessionTexts == {<<Mention, Word(1)>>}
SessionChats == {"p1", "g1"}

NextSession ==
  \/ Startup
  \/ /\ count.updates < MaxEvents
     /\ \E c \in SessionChats, u \in Users, t \in SessionTexts :
          TextReceive(c, u, t, FALSE)
  \/ \E h \in inflight : Sentiment(h, Ok(<<>>))
  \/ \E h \in inflight : Build(h)
  \/ \E h \in inflight : Complete(h, Ok(ANSWER))
  \/ \E h \in inflight : ReplyAndStore(h, TRUE)
  \/ /\ count.updates < MaxEvents
     /\ \E c \in SessionChats, u \in Users : ResetCmd(c, u, TRUE)

SpecSession == InitWithDb /\ [][NextSession]_vars

\* SpecPrompt: with and without a database, one user sets a profile and a role,
\* asks for a summary and writes; a second user writes in the group
PROFILE == <<Word(7)>>
SUMMARY == <<Lit("summary")>>
ModeData == {"translator", "hacker", "clear"}

InitPrompt == Init /\ apiKeys = {}

NextPrompt ==
  \/ /\ count.updates < MaxPromptEvents
     /\ inflight = {}
     /\ \/ TextReceive("p1", "u1", <<Word(1)>>, FALSE)
        \/ /\ msgSeq["g1"] < MaxOther
           /\ TextReceive("g1", "u2", <<Word(2)>>, TRUE)
        \/ SetProfileCmd("p1", "u1", PROFILE)
        \/ \E v \in ModeData : ModeAction("u1", v)
        \/ SummaryCmd("p1", "u1", Ok(SUMMARY))
  \/ \E h \in inflight : Sentiment(h, Ok(<<>>))
  \/ \E h \in inflight : Build(h)
  \/ \E h \in inflight : Complete(h, Ok(ANSWER))
  \/ \E h \in inflight : ReplyAndStore(h, TRUE)

SpecPrompt == InitPrompt /\ [][NextPrompt]_vars

\* SpecDb: with and without a database, one user runs every handler that writes
POST == <<Word(3)>>

NextDb ==
  \/ /\ count.updates < MaxEvents
     /\ inflight = {}
     /\ \/ TextReceive("p1", "u1", <<Word(1)>>, FALSE)
        \/ \E text \in {<<>>, PROFILE} : SetProfileCmd("p1", "u1", text)
        \/ \E out \in {Ok(SUMMARY), Ok(<<>>)} : SummaryCmd("p1", "u1", out)
        \/ \E arg \in {"@ch1", "@g1"}, listed \in BOOLEAN, lookupOk \in BOOLEAN :
             LinkChannelCmd("p1", "u1", arg, listed, lookupOk)
        \/ UnlinkChannelCmd("p1", "u1", "@ch1")
        \/ \E chan \in {"", "@ch1"}, sendOk \in BOOLEAN :
             PostCmd("p1", "u1", chan, POST, sendOk)
        \/ \E emo \in {"", "fire"}, apiOk \in BOOLEAN : ReactCmd("p1", "u1", emo, 1, apiOk)
  \/ now < MaxClock /\ Tick
  \/ \E h \in inflight : Sentiment(h, Ok(<<>>))
  \/ \E h \in inflight : Build(h)
  \/ \E h \in inflight : Complete(h, Ok(ANSWER))
  \/ \E h \in inflight : ReplyAndStore(h, TRUE)

SpecDb == InitPrompt /\ [][NextDb]_vars

\* SpecLinks: messages with no URL, with several and with more than the program
\* reads; every request for a page can throw or give a short or a long text
UrlText(k) == [i \in 1..(2 * k) |-> IF i % 2 = 1 THEN Word(i) ELSE Url(i \div 2)]
LinkTexts == {UrlText(0) \o <<Word(1)>>, UrlText(2), UrlText(MaxUrls),
              <<Url(2), Word(1), Url(1), Url(2)>>}
DirectLens == {-1, 0, LINK_BUDGET + 1, PAGE_BUDGET + 1}
ReaderLens == {-1, LINK_BUDGET - 1}

NextLinks ==
  \/ /\ count.updates < MaxEvents
     /\ inflight = {}
     /\ \E t \in LinkTexts : TextReceive("p1", "u1", t, FALSE)
  \/ \E h \in inflight : Sentiment(h, Ok(<<>>))
  \/ \E h \in inflight, direct \in DirectLens, reader \in ReaderLens :
       FetchUrl(h, direct, reader)
  \/ \E h \in inflight : Build(h)
  \/ \E h \in inflight : Complete(h, Ok(ANSWER))
  \/ \E h \in inflight : ReplyAndStore(h, TRUE)

SpecLinks == InitWithDb /\ [][NextLinks]_vars

\* SpecSearch: /search with every set of API keys; every adapter can throw, or
\* give no result, one result or more results than the smallest limit
SearchWords == {<<Word(1)>>, <<Word(1), Num(1)>>}
AdapterAnswers(fn) ==
  {Threw, Ok(<<>>), Ok(<<Item(fn, 1)>>),
   Ok(<<Item(fn, 1), Item(fn, 2), Item(fn, 3), Item(fn, 4)>>)}

InitSearch == Init /\ pool

NextSearch ==
  \/ /\ count.updates < MaxSearches
     /\ inflight = {}
     /\ \E rest \in SearchWords : SearchCmd("p1", "u1", rest)
  \/ \E h \in inflight :
       /\ h.pc = "adapter"
       /\ \E out \in AdapterAnswers(Chain[Len(h.calls) + 1]) : SearchAdapter(h, out)
  \/ \E h \in inflight, out \in {Ok(ANSWER), Threw} : SearchAnswer(h, out)
  \/ \E h \in inflight, sent \in BOOLEAN : h.op = "search" /\ ReplyAndStore(h, sent)

SpecSearch == InitSearch /\ [][NextSearch]_vars

\* SpecReactions: two users react to two messages of the group with two emojis,
\* again and again while the clock advances
ReactionEmojis == {"", "fire"}
ReactionTargets == {0, 1, 2}

NextReactions ==
  \/ /\ count.updates < MaxEvents
     /\ \E u \in Users, emo \in ReactionEmojis, tgt \in ReactionTargets, apiOk \in BOOLEAN :
          ReactCmd("g1", u, emo, tgt, apiOk)
  \/ /\ count.updates < MaxEvents
     /\ \E tgt \in ReactionTargets \ {0}, apiOk \in BOOLEAN :
          ReactToMessageCall("g1", tgt, THUMBS_UP, apiOk)
  \/ now < MaxClock /\ Tick

SpecReactions == InitWithDb /\ [][NextReactions]_vars

\* SpecInbound: text, photo, voice and video-note messages arrive in a private
\* chat and in the group, one handler at a time; every request a handler makes
\* to the platform, to the file server and to the model can fail or come back
\* empty
InboundKeys == {<<"p1", "u1">>, <<"g1", "u2">>}
MIXED_CASE_MENTION == Lit("@GptBot")
InboundTexts == {<<Word(1)>>, <<MIXED_CASE_MENTION, Word(1)>>}
TRANSCRIPT == <<Word(2)>>

NextInbound ==
  \/ /\ count.updates < MaxInbound
     /\ inflight = {}
     /\ \E k \in InboundKeys, r \in BOOLEAN :
          /\ k[1] = "p1" => ~r
          /\ \/ \E text \in InboundTexts : TextReceive(k[1], k[2], text, r)
             \/ \E kind \in MediaKinds, linkOk \in BOOLEAN :
                  VoiceReceive(k[1], k[2], kind, linkOk, r)
             \/ \E caption \in {<<>>, <<MIXED_CASE_MENTION>>}, linkOk \in BOOLEAN :
                  PhotoReceive(k[1], k[2], caption, linkOk, r)
  \/ Startup
  \/ \E h \in inflight, ok \in BOOLEAN : Download(h, ok)
  \/ \E h \in inflight, out \in {Ok(TRANSCRIPT), Ok(<<>>), Threw} : Transcribe(h, out)
  \/ \E h \in inflight, out \in Completions : Describe(h, out)
  \/ \E h \in inflight, out \in {Ok(<<>>), Threw} : Sentiment(h, out)
  \/ \E h \in inflight : Build(h)
  \/ \E h \in inflight, out \in Completions : Complete(h, out)
  \/ \E h \in inflight, sent \in BOOLEAN : ReplyAndStore(h, sent)

SpecInbound == InitWithDb /\ [][NextInbound]_vars

\* SpecChatLog: one member of the group writes numbered messages until the log
\* of the group is past its cap; at the start and once the log is full, another
\* member writes too, messages are addressed to the bot and answered, and the
\* private chat gets messages
LogWindow == count.pushes < 3 \/ count.pushes >= CHATLOG_CAP - 1

NextChatLog ==
  \/ /\ count.pushes < MaxLogAppends
     /\ inflight = {}
     /\ \/ TextReceive("g1", "u2", HistoryText("g1", "u2"), FALSE)
        \/ /\ LogWindow
           /\ \/ \E r \in BOOLEAN : TextReceive("g1", "u1", HistoryText("g1", "u1"), r)
              \/ TextReceive("p1", "u1", HistoryText("p1", "u1"), FALSE)
  \/ \E h \in inflight : Sentiment(h, Ok(<<>>))
  \/ \E h \in inflight : Build(h)
  \/ \E h \in inflight : Complete(h, Ok(ANSWER))
  \/ \E h \in inflight : ReplyAndStore(h, TRUE)

SpecChatLog == InitWithDb /\ [][NextChatLog]_vars

\* SpecGenerated: every handler that sends text produced by the model runs in a
\* private chat, and each request to the model comes back with text or empty
Generations == {Ok(ANSWER), Ok(<<>>)}

NextGenerated ==
  \/ /\ count.updates < MaxEvents
     /\ inflight = {}
     /\ \/ TextReceive("p1", "u1", <<Word(1)>>, FALSE)
        \/ VoiceReceive("p1", "u1", "voice", TRUE, FALSE)
        \/ PhotoReceive("p1", "u1", <<>>, TRUE, FALSE)
        \/ \E out \in Generations : SummaryCmd("p1", "u1", out)
        \/ ChannelPost("ch1", POST)
        \/ \E out \in Generations : DigestCmd("p1", "u1", "@ch1", <<>>, out)
        \/ SearchCmd("p1", "u1", <<Word(1)>>)
  \/ now < MaxClock /\ Tick
  \/ \E h \in inflight : Download(h, TRUE)
  \/ \E h \in inflight, out \in {Ok(TRANSCRIPT), Ok(<<>>)} : Transcribe(h, out)
  \/ \E h \in inflight, out \in Generations : Describe(h, out)
  \/ \E h \in inflight : Sentiment(h, Ok(<<>>))
  \/ \E h \in inflight : Build(h)
  \/ \E h \in inflight, out \in Generations : Complete(h, out)
  \/ \E h \in inflight :
       /\ h.pc = "adapter"
       /\ SearchAdapter(h, Ok(<<Item(Chain[Len(h.calls) + 1], 1)>>))
  \/ \E h \in inflight, out \in Generations : SearchAnswer(h, out)
  \/ \E h \in inflight : ReplyAndStore(h, TRUE)

SpecGenerated == InitWithDb /\ [][NextGenerated]_vars

\* SpecChannels: a user who is in a private chat and in the group gives the
\* channel commands in both, while posts arrive in the channel
ChannelChats == {"p1", "g1"}
ChannelArgs == {"", "@ch1", "@ch2", "@g1"}
PostArgs == {"", "@ch1", "@gone"}

NextChannels ==
  \/ /\ count.updates < MaxEvents
     /\ \E c \in ChannelChats :
          \/ \E arg \in ChannelArgs, listed \in BOOLEAN, lookupOk \in BOOLEAN :
               LinkChannelCmd(c, "u1", arg, listed, lookupOk)
          \/ \E arg \in ChannelArgs : UnlinkChannelCmd(c, "u1", arg)
          \/ MyChannelsCmd(c, "u1")
          \/ \E target \in ChannelArgs, out \in Completions :
               DigestCmd(c, "u1", target, <<>>, out)
  \/ /\ count.updates < MaxEvents
     /\ \E chan \in PostArgs, sendOk \in BOOLEAN : PostCmd("p1", "u1", chan, POST, sendOk)
  \/ /\ count.updates < MaxEvents
     /\ ChannelPost("ch1", POST)

SpecChannels == InitPrompt /\ [][NextChannels]_vars

\* SpecPublish: a user publishes to a channel, the commands running side by
\* side; the platform can refuse a message, every write to the database can
\* fail, and the process can die between two statements
NextPublish ==
  \/ /\ count.updates < MaxPosts
     /\ \E chan \in {"@ch1", "@gone"} : PostStart("p1", "u1", chan, POST)
  \/ \E h \in inflight, sendOk \in BOOLEAN : PostSend(h, sendOk)
  \/ \E h \in inflight, dbOk \in BOOLEAN : PostWrite(h, dbOk)
  \/ \E h \in inflight, dbOk \in BOOLEAN : PostCatch(h, dbOk)
  \/ \E h \in inflight, sent \in BOOLEAN : PostReply(h, sent)
  \/ Crash

SpecPublish == InitPrompt /\ [][NextPublish]_vars

\* SpecCounts: /search and /digest get every kind of count word: absent, zero,
\* small, within and beyond the limits, signed, digits followed by letters, not
\* a number.  The keyless adapter answers with more results than any limit
CountValues == {0, 1, 2, 3, 4, 5, 6, 9, 10, 11, 12, 49, 50, 199, 200, 201, 1000}
CountWords ==
  {Num(n) : n \in CountValues} \cup {Num(0 - 3), NumWord(7), NumWord(0), NumWord(300), Word(2)}
ManyResults == [i \in 1..(MAX_LIMIT + 2) |-> Item("duckDuckGoSearch", i)]

NextCounts ==
  \/ /\ count.updates < MaxEvents
     /\ inflight = {}
     /\ \/ SearchCmd("p1", "u1", <<Word(1)>>)
        \/ \E w \in CountWords : SearchCmd("p1", "u1", <<Word(1), w>>)
        \/ DigestCmd("p1", "u1", "@ch1", <<>>, Ok(ANSWER))
        \/ \E w \in CountWords : DigestCmd("p1", "u1", "@ch1", <<w>>, Ok(ANSWER))
        \/ ChannelPost("ch1", POST)
  \/ \E h \in inflight : h.pc = "adapter" /\ SearchAdapter(h, Ok(ManyResults))
  \/ \E h \in inflight : SearchAnswer(h, Ok(ANSWER))
  \/ \E h \in inflight : ReplyAndStore(h, TRUE)

SpecCounts == InitWithDb /\ [][NextCounts]_vars

\* ------------------------------------------------------------------ claims
\* C1: in every reachable state the history stored for every (chat, user) key has
\* at most 16 entries, whatever handlers pushed to it.
C1_HistoryAtMost16 == \A k \in DOMAIN sessions : Len(sessions[k]) <= 16

\* C1 witness: a key that has been pushed to more than 16 times holds 16 entries
C1_Witness ==
  \E k \in DOMAIN sessions : Len(pushed[k]) > 16 /\ Len(sessions[k]) = 16

\* C2: the history stored for a key is exactly the most recent min(N, 16) of the N
\* turns pushed to it since it was last empty, in arrival order.
C2_MostRecentInOrder ==
  \A k \in Keys : MapGet(sessions, k, <<>>) = LastN(pushed[k], 16)

\* C2 witness: after 18 pushes to a key the two oldest turns are gone and the
\* newest is last
C2_Witness ==
  \E k \in DOMAIN sessions :
    /\ Len(pushed[k]) = 18
    /\ sessions[k][1] = pushed[k][3]
    /\ sessions[k][16] = pushed[k][18]
    /\ pushed[k][1] # pushed[k][3]

\* the history the program reads for (chat, user) in the map m
HistIn(m, c, u) == MapGet(m, getKey(c, u), <<>>)

\* C3: /reset by user u in chat c removes exactly the history stored for (c, u);
\* the history of every other (chat, user) is unchanged.
C3_ResetRemovesOnlyItsKey ==
  [][ev'.op = "reset" =>
       /\ HistIn(sessions', ev'.chat, ev'.from) = <<>>
       /\ \A k \in Keys \ {<<ev'.chat, ev'.from>>} :
            HistIn(sessions', k[1], k[2]) = HistIn(sessions, k[1], k[2])]_vars

\* C3 witness: a reset of a key that held turns, while another user of the same
\* chat still holds turns
C3_Witness ==
  /\ ev.op = "reset" /\ ev.pre > 0
  /\ HistIn(sessions, ev.chat, ev.from) = <<>>
  /\ \E u \in Users \ {ev.from} : HistIn(sessions, ev.chat, u) # <<>>

\* what the tables and the maps hold for a handler, read without the program's
\* functions: the stored profile of u, the instruction of u's role, the newest
\* summary of c, the history under (c, u)
StoredProfile(u) == IF u \in DOMAIN db.users THEN db.users[u].system_prompt ELSE <<>>
RoleInstruction(u) ==
  IF u \in DOMAIN sessionRoles /\ sessionRoles[u] \in RoleNames
  THEN <<Lit("ROLES." \o sessionRoles[u])>> ELSE <<>>
NewestSummary(c) ==
  LET ks == {k \in DOMAIN db.summaries : k[1] = c}
  IN IF ks = {} THEN <<>>
     ELSE db.summaries[CHOOSE k \in ks : \A k2 \in ks : k2[2] <= k[2]]
StoredHistory(c, u) == MapGet(sessions, <<c, u>>, <<>>)
Built == {h \in inflight : h.op = "text" /\ h.pc = "complete"}

\* C4: the list buildMessages produces is, in this order: one system message made
\* of the base instruction, then the profile, then the role instruction; the
\* summary system message when a summary exists; the history of the (chat, user)
\* key in stored order; the new user message last.
C4_FixedOrder ==
  \A h \in Built :
    LET c == h.ctx.chat
        u == h.ctx.from
        hist == StoredHistory(c, u)
        n0 == IF NewestSummary(c) # <<>> THEN 2 ELSE 1
    IN /\ Len(h.msgs) = n0 + Len(hist) + 1
       /\ h.msgs[1].role = "system"
       /\ h.msgs[1].content =
            BASE_SYSTEM
            \o (IF StoredProfile(u) # <<>>
                THEN <<NL, Lit("User profile: ")>> \o StoredProfile(u) ELSE <<>>)
            \o (IF RoleInstruction(u) # <<>> THEN <<NL>> \o RoleInstruction(u) ELSE <<>>)
       /\ NewestSummary(c) # <<>> =>
            h.msgs[2] = Turn("system", <<Lit("Chat memory: ")>> \o NewestSummary(c))
       /\ \A i \in 1..Len(hist) : h.msgs[n0 + i] = hist[i]
       /\ h.msgs[Len(h.msgs)].role = "user"
       /\ \E i \in 1..Len(h.msgs[Len(h.msgs)].content) :
            SubSeq(h.msgs[Len(h.msgs)].content, i, i + Len(h.userText) - 1) = h.userText

\* C4 witness: a list built with a profile, a role instruction, a summary and a
\* history that holds an assistant turn between two user turns
C4_Witness ==
  \E h \in Built :
    /\ StoredProfile(h.ctx.from) # <<>>
    /\ RoleInstruction(h.ctx.from) # <<>>
    /\ NewestSummary(h.ctx.chat) # <<>>
    /\ Len(h.msgs) >= 6
    /\ h.msgs[3].role = "user" /\ h.msgs[4].role = "assistant"

\* C5: with no database every read path (getUserProfile, lastSummary,
\* getUserChannels) gives its empty value and does not fail, so the prompt of a
\* message is assembled.
C5_ReadsDegradeWithoutDb ==
  (~pool /\ ev.stage = "build") =>
    /\ getUserProfile(db, ev.from) = Ok(<<>>)
    /\ lastSummary(db, ev.chat) = <<>>
    /\ getUserChannels(db, ev.from) = {}
    /\ ~ev.threw

\* C6: buildMessages skips what is absent: the profile text, the role instruction
\* and the summary message are in the list iff the input is there and not empty;
\* with none of them the list is the base system message, the history and the new
\* user message; no entry is empty and no call fails.
C6_AbsentInputsSkipped ==
  /\ ~(ev.stage = "build" /\ ev.threw)
  /\ \A h \in Built :
       LET c == h.ctx.chat
           u == h.ctx.from
           sys == h.msgs[1].content
           last == h.msgs[Len(h.msgs)]
       IN /\ Includes(sys, Lit("User profile: ")) <=> StoredProfile(u) # <<>>
          /\ (\E r \in RoleNames : Includes(sys, Lit("ROLES." \o r)))
               <=> RoleInstruction(u) # <<>>
          /\ (\E i \in 2..Len(h.msgs) : h.msgs[i].role = "system")
               <=> NewestSummary(c) # <<>>
          /\ (StoredProfile(u) = <<>> /\ RoleInstruction(u) = <<>> /\ NewestSummary(c) = <<>>)
               => h.msgs = <<Turn("system", BASE_SYSTEM)>> \o StoredHistory(c, u) \o <<last>>
          /\ \A i \in 1..Len(h.msgs) : h.msgs[i].content # <<>>
          /\ \A i \in 1..(Len(sys) - 1) : ~(sys[i] = NL /\ sys[i + 1] = NL)
          /\ sys[Len(sys)] # NL

\* C7: with no database every write (upsertUser, upsertChat, linkUserChannel,
\* storeMessageV2, storeReaction, logPost, addSummary, setUserProfile) ends without
\* an error, issues no query and changes nothing.
C7_WritesAreNoOpsWithoutDb ==
  ~pool => /\ db = EmptyDb
           /\ db.queries = 0
           /\ ~(ev.threw /\ ev.stage \in {"receive", "reply", "db", "done", "warned"})

\* C7 witness: without a database a message was received and stored, and then
\* /setprofile has called setUserProfile and answered
C7_Witness ==
  /\ ~pool
  /\ ev.op = "setprofile" /\ ev.reply = PROFILE_SAVED /\ ~ev.threw
  /\ "p1" \in DOMAIN chatLog

\* where the URLs of a text are, and where its j-th URL is
UrlPositions(text) == {i \in 1..Len(text) : text[i].k = "url"}
NthUrlPosition(text, j) ==
  CHOOSE i \in UrlPositions(text) : Cardinality({x \in UrlPositions(text) : x < i}) = j - 1
PagesOf(content) == {content[i].n : i \in {x \in 1..Len(content) : content[x].k = "page"}}
EnrichedUrls(content) ==
  {i \in 2..(Len(content) - 1) : content[i - 1] = Lit("[") /\ content[i].k = "url"}

\* C8: for every text, link enrichment fetches at most 3 URLs, the first three of
\* the text in order of occurrence, and the text included for a URL has at most
\* 3000 characters.
C8_AtMostThreeLinks ==
  \A h \in inflight :
    LET text == h.userText
        n == Cardinality(UrlPositions(text))
    IN h.op = "text" =>
         /\ Len(h.fetched) <= 3
         /\ \A j \in 1..Len(h.fetched) : h.fetched[j] = text[NthUrlPosition(text, j)]
         /\ h.pc \in {"build", "complete", "reply"} => Len(h.fetched) = Min(n, 3)
         /\ \A j \in 1..Len(h.parts) : \A len \in PagesOf(h.parts[j]) : len <= 3000
         /\ h.pc = "complete" =>
              LET prompt == h.msgs[Len(h.msgs)].content
              IN /\ Cardinality(EnrichedUrls(prompt)) <= 3
                 /\ \A len \in PagesOf(prompt) : len <= 3000

\* C8 witness: a text with more than three URLs whose prompt is built, and a page
\* longer than 3000 characters among the three fetched
C8_Witness ==
  \E h \in inflight :
    /\ h.pc = "complete"
    /\ Cardinality(UrlPositions(h.userText)) > 3
    /\ Len(h.fetched) = 3
    /\ \E j \in 1..3 : h.lens[j] > 3000 /\ PagesOf(h.parts[j]) = {3000}

\* C9: when fetching a URL of the message fails, the enrichment section holds an
\* error note for that URL; the other URLs are still fetched and the reply is
\* still made.
C9_FailureNoteSubstituted ==
  \A h \in inflight :
    h.op = "text" =>
      /\ \A j \in 1..Len(h.failed) :
           h.failed[j] =>
             h.parts[j] = <<Lit("["), h.fetched[j], Lit("] could not be fetched ("),
                            Lit("e"), Lit(")")>>
      /\ h.pc \in {"build", "complete", "reply"} => Len(h.parts) = Len(h.urls)

\* what an adapter returned is a list with results in it
NonEmptyList(res) == ~res.threw /\ ~res.null /\ res.val # <<>>

\* C10: webSearch returns exactly the list of the first adapter, in chain order,
\* that returned a list with results, merged with nothing; when no adapter did,
\* it returns the empty list and /search answers with the nothing-found text.
C10_FirstNonEmptyProvider ==
  \A h \in inflight :
    (h.op = "search" /\ h.pc \in {"answer", "reply"}) =>
      LET n == Len(h.calls)
      IN /\ \A i \in 1..n : h.calls[i].fn = Chain[i]
         /\ \A i \in 1..(n - 1) : ~NonEmptyList(h.calls[i].res)
         /\ IF NonEmptyList(h.calls[n].res)
            THEN h.results = h.calls[n].res.val
            ELSE /\ n = Len(Chain)
                 /\ h.results = <<>>
                 /\ h.pc = "reply"
                 /\ SubSeq(h.replyText, 1, 1) = NOTHING_FOUND

\* C10 witness: /search has answered that nothing was found, and a later search
\* takes the list of an adapter that comes after one that returned an empty list
C10_Witness ==
  /\ \E i \in 1..Len(MapGet(chatLog, "p1", <<>>)) :
       SubSeq(chatLog["p1"][i].content, 1, 1) = NOTHING_FOUND
  /\ \E h \in inflight :
       /\ h.op = "search" /\ h.pc = "answer"
       /\ Len(h.calls) >= 2
       /\ \E i \in 1..(Len(h.calls) - 1) :
            ~h.calls[i].res.threw /\ ~h.calls[i].res.null /\ h.calls[i].res.val = <<>>
       /\ Len(h.results) > 1

\* the searches in flight, and the adapters in the order the program names them
Searches == {h \in inflight : h.op = "search"}
ProviderOrder == <<"braveSearch", "serpApiSearch", "bingSearch", "duckDuckGoSearch">>

\* C11: within one search the adapters are called in the order Brave, SerpAPI,
\* Bing, DuckDuckGo, each at most once; one that throws or has no key counts as
\* empty and the next is tried; none is called after one returned results.
C11_ProvidersInOrderOnce ==
  \A h \in Searches :
    LET n == Len(h.calls)
    IN /\ n <= 4
       /\ \A i \in 1..n : h.calls[i].fn = ProviderOrder[i]
       /\ \A i \in 1..(n - 1) : ~NonEmptyList(h.calls[i].res)
       /\ \A i \in 1..n :
            (h.calls[i].fn \in KeyedAdapters /\ h.calls[i].fn \notin apiKeys)
              => h.calls[i].res = PNull
       /\ (h.pc = "adapter") => (n < 4 /\ (n > 0 => ~NonEmptyList(h.calls[n].res)))
       /\ (h.pc \in {"answer", "reply"} /\ n < 4) => NonEmptyList(h.calls[n].res)

\* C11 witness: a search in which Brave has no key, SerpAPI threw, Bing returned
\* an empty list and DuckDuckGo returned results
C11_Witness ==
  \E h \in Searches :
    /\ h.pc = "answer" /\ Len(h.calls) = 4
    /\ h.calls[1].res.null
    /\ h.calls[2].res.threw
    /\ ~h.calls[3].res.threw /\ ~h.calls[3].res.null /\ h.calls[3].res.val = <<>>
    /\ h.results = h.calls[4].res.val /\ h.results # <<>>

\* C12: storing a reaction is idempotent: after storeReaction has run for a key
\* (chat, message, emoji, user), any number of times, exactly one row has that
\* key; a repeated call raises no error and changes nothing; an absent user is
\* stored as id 0.
C12_StoreReactionIdempotent ==
  [][(ev'.op \in {"react", "reactToMessage"} /\ ev'.stage \in {"done", "warned"}) =>
       LET k == <<ev'.chat, ev'.target, ev'.data,
                  IF ev'.from = "null" THEN "0" ELSE ev'.from>>
           had == \E i \in 1..Len(db.reactions) :
                    <<db.reactions[i].chat_id, db.reactions[i].message_id,
                      db.reactions[i].emoji, db.reactions[i].user_id>> = k
           rows == {i \in 1..Len(db'.reactions) :
                      <<db'.reactions[i].chat_id, db'.reactions[i].message_id,
                        db'.reactions[i].emoji, db'.reactions[i].user_id>> = k}
       IN /\ Cardinality(rows) = 1
          /\ had => db'.reactions = db.reactions
          /\ ~had => SubSeq(db'.reactions, 1, Len(db.reactions)) = db.reactions
          /\ ~ev'.threw]_vars

\* C12 witness: a reaction stored again one second later, by a user and with no
\* user, has left the one row of each key as it was
C12_Witness ==
  /\ ev.op = "react" /\ ev.stage \in {"done", "warned"}
  /\ now > 0
  /\ Len(db.reactions) = 2
  /\ db.reactions[1].user_id = "0"
  /\ db.reactions[2].user_id = ev.from
  /\ db.reactions[2].message_id = ev.target /\ db.reactions[2].emoji = ev.data
  /\ db.reactions[2].ts < now
  /\ db.queries = 3


\* C13: /linkchannel adds a link row only when, during that command, the bot
\* was found among the administrators of the channel; when it is not, or the
\* lookup fails, the command answers with a rejection and adds no row.
C13_LinkOnlyWhenAdmin ==
  [][/\ (db'.user_channels \ db.user_channels # {}) =>
          /\ ev'.op = "linkchannel" /\ ev'.admin
          /\ db'.user_channels \ db.user_channels = {<<ev'.from, getChat(ev'.data)>>}
          /\ ChatType(getChat(ev'.data)) = "channel"
     /\ (count'.updates # count.updates /\ ev'.op = "linkchannel" /\ ~ev'.admin) =>
          /\ db'.user_channels = db.user_channels
          /\ ev'.reply \in {PRIVATE_ONLY, LINK_USAGE, LINK_FAILED, NOT_A_CHANNEL, NOT_ADMIN}
          /\ ~ev'.threw]_vars

\* C13 witness: the channel was linked while the bot was an administrator, and a
\* later /linkchannel for it, the bot no longer verified, was rejected
C13_Witness ==
  /\ ev.op = "linkchannel" /\ ev.data = "@ch1" /\ ~ev.admin
  /\ ev.reply = NOT_ADMIN
  /\ db.user_channels = {<<"u1", "ch1">>}


\* C14: /post publishes only to a channel linked to the requesting user: when a
\* post is published, a link row (user, channel) exists at that time.
C14_PostOnlyToLinkedChannel ==
  [][(count'.updates # count.updates /\ ev'.op = "post" /\ ev'.reply = PUBLISHED) =>
       (pool /\ <<ev'.from, ev'.data>> \in db.user_channels)]_vars


\* C15: a failure of an external call made while an inbound text, photo, voice
\* or video-note message is handled (sentiment or completion request,
\* transcription, download of the media) is caught where the call is made and
\* never leaves the handler as an exception.
C15_FailuresCaughtInHandler ==
  ev.op \in {"text", "photo", "voice", "video_note"} => ~ev.threw


\* the turn the last step pushed for the key of the last step
LastPushed == pushed'[<<ev'.chat, ev'.from>>][Len(pushed'[<<ev'.chat, ev'.from>>])]

\* C16: the log of every chat holds at most 300 entries and is the most recent
\* min(N, 300) of the N turns appended to it, in arrival order; appending to the
\* log of one chat leaves the log of every other chat as it was.  Stated on
\* steps: a step that changes the chat log appends the turn it pushed to the log
\* of its chat, drops the oldest entry when that makes 301, and touches no other
\* chat.
C16_ChatLogKeepsLast300 ==
  [][/\ \A c \in DOMAIN chatLog' : Len(chatLog'[c]) <= CHATLOG_CAP
     /\ chatLog' # chatLog =>
          LET c == ev'.chat
              old == MapGet(chatLog, c, <<>>)
          IN /\ DOMAIN chatLog' = DOMAIN chatLog \cup {c}
             /\ chatLog'[c] = LastN(Append(old, LastPushed), CHATLOG_CAP)
             /\ \A x \in DOMAIN chatLog \ {c} : chatLog'[x] = chatLog[x]]_vars

\* C16 witness: 303 turns were appended to the logs of the group and of the
\* private chat, the log of the group is full and its oldest turns are gone
C16_Witness ==
  /\ "g1" \in DOMAIN chatLog /\ "p1" \in DOMAIN chatLog
  /\ Len(chatLog["g1"]) = CHATLOG_CAP
  /\ Len(pushed[<<"g1", "u2">>]) + Len(pushed[<<"g1", "u1">>]) > CHATLOG_CAP
  /\ Len(pushed[<<"g1", "u1">>]) > 0
  /\ chatLog["g1"][CHATLOG_CAP] = pushed[<<"g1", "u1">>][Len(pushed[<<"g1", "u1">>])]
  /\ chatLog["g1"][CHATLOG_CAP].role = "assistant"
  /\ chatLog["g1"][1] # pushed[<<"g1", "u2">>][1]
  /\ Len(chatLog["p1"]) = 2


\* C17: every value stored in the role map is one of analyst, translator,
\* coder, whatever callback data the role-selection action receives.
C17_RolesWithinEnumeration ==
  \A u \in DOMAIN sessionRoles : sessionRoles[u] \in RoleNames


\* the placeholders the program substitutes for an empty completion
Placeholders == {ROBOT, PICTURE, DASH, LONG_DASH}

\* C18: generated text sent to the user is never empty: when the completion
\* behind a reply, a summary, a digest or a web answer returned nothing, the text
\* sent starts with a fixed placeholder, otherwise with what the completion
\* returned; a transcription that returned nothing is replaced by its placeholder
\* before the text is used.
C18_GeneratedTextNeverEmpty ==
  /\ ev.gen =>
       /\ ev.reply # <<>>
       /\ IF ev.out = <<>>
          THEN \E ph \in Placeholders : SubSeq(ev.reply, 1, Len(ph)) = ph
          ELSE SubSeq(ev.reply, 1, Len(ev.out)) = ev.out
  /\ \A h \in inflight :
       (h.op \in MediaKinds /\ h.pc \notin {"download", "transcribe"}) =>
         h.userText \in {TRANSCRIPT, EMPTY_TRANSCRIPT}

\* C18 witness: a voice message whose transcription came back empty was answered
\* by a completion that came back empty too, and the placeholder was sent and
\* stored
C18_Witness ==
  /\ ev.op = "voice" /\ ev.stage = "reply" /\ ev.gen
  /\ ev.out = <<>>
  /\ ev.reply = ROBOT
  /\ Hist("p1", "u1")[Len(Hist("p1", "u1"))] = Turn("assistant", ROBOT)


\* C19: summaries are append-only and read latest-first: every addSummary call
\* adds one row and leaves the existing rows as they were, and lastSummary of the
\* chat then returns the summary of the row just added, while lastSummary of
\* every other chat is unchanged.
C19_SummariesAppendOnly ==
  [][(/\ pool
      /\ count'.updates # count.updates
      /\ ev'.op = "summary" /\ ev'.stage \in {"reply", "db"}
      /\ ev'.reply # HISTORY_EMPTY) =>
       /\ \E k \in DOMAIN db'.summaries \ DOMAIN db.summaries :
            /\ DOMAIN db'.summaries = DOMAIN db.summaries \cup {k}
            /\ k[1] = ev'.chat
            /\ lastSummary(db', ev'.chat) = db'.summaries[k]
       /\ \A k \in DOMAIN db.summaries : db'.summaries[k] = db.summaries[k]
       /\ \A c \in Chats \ {ev'.chat} : lastSummary(db', c) = lastSummary(db, c)]_vars


\* the handlers of text messages that the step started, and those it ended
TextStarted == {h \in inflight' \ inflight : h.op = "text" /\ h.pc = "sentiment"}
TextEnded == {h \in inflight : h.op = "text" /\ \A h2 \in inflight' : h2.ctx # h.ctx}

\* C20: in a chat that is not private a text message is handed to the model and
\* answered only if it mentions the bot's username, in any letter case, or
\* replies to a message of a bot; a message that is not addressed gets no reply
\* and no model request but is still appended as a user turn to the history of
\* its sender and to the chat log; in a private chat every text message is
\* answered.
C20_AnsweredWhenAddressed ==
  [][/\ \A h \in TextStarted :
          ChatType(h.ctx.chat) # "private" =>
            (Includes(toLowerCase(h.ctx.text), Mention) \/ h.ctx.replyToBot)
     /\ (count'.updates # count.updates /\ ev'.op = "text" /\ ev'.stage = "receive") =>
          LET c == ev'.chat
              u == ev'.from
              turn == pushed'[<<c, u>>][Len(pushed'[<<c, u>>])]
          IN /\ turn.role = "user"
             /\ sessions'[getKey(c, u)][Len(sessions'[getKey(c, u)])] = turn
             /\ chatLog'[c][Len(chatLog'[c])] = turn
             /\ ChatType(c) = "private" => TextStarted # {}
             /\ TextStarted = {} => (msgSeq'[c] = msgSeq[c] + 1 /\ ev'.reply = <<>>)
     /\ \A h \in TextEnded :
          ChatType(h.ctx.chat) = "private" =>
            (ev'.stage = "reply" /\ ~ev'.threw /\ ev'.reply # <<>>)]_vars


PrivateOnlyCommands == {"linkchannel", "unlinkchannel", "mychannels", "digest"}

SentTo == {x \in Channels \cup {"g1"} : msgSeq'[x] > msgSeq[x]}
\* the channels linked to the user of the step in the database before it
LinkedBefore ==
  IF pool THEN {uc[2] : uc \in {x \in db.user_channels : x[1] = ev'.from}} ELSE {}

SentRows(c, mid) ==
  {i \in 1..Len(db.posts_log) :
     /\ db.posts_log[i].chat_id = c
     /\ db.posts_log[i].message_id = mid
     /\ db.posts_log[i].status = "sent"}

\* C23: publishing writes the log row before the message row: in every
\* reachable state, also after a failure or a crash between the two statements,
\* the message row of a published post implies a publish-log row with status
\* 'sent' for the same chat and message id.
C23_LogRowBeforeMessageRow ==
  \A k \in DOMAIN db.messages :
    (ChatType(k[1]) = "channel" /\ db.messages[k].role = "assistant") =>
      SentRows(k[1], k[2]) # {}

\* C23 witness: the process died after the log row of a published post was
\* written and before its message row was: a log row without a message row
C23_Witness ==
  /\ ev.op = "crash"
  /\ SentRows("ch1", 1) # {}
  /\ <<"ch1", 1>> \notin DOMAIN db.messages
  /\ \E k \in DOMAIN db.messages : k[1] = "ch1" /\ k[2] = 2


\* C27: every publish attempt writes exactly one publish-log row, 'sent' if and
\* only if the platform accepted the message: for a post that was delivered the
\* failure path, which logs 'failed' and reports that nothing was published, is
\* never taken, even when a write to the database after the send fails.
C27_DeliveredNeverLoggedFailed ==
  (ev.op = "post" /\ ev.target # 0) =>
     /\ ev.stage # "catch"
     /\ (ev.stage = "reply" /\ ev.reply # <<>>) =>
          /\ ev.reply = PUBLISHED
          /\ pool => Cardinality(SentRows(ev.data, ev.target)) = 1


\* C24: counts given by the user are always clamped: whatever the last word of
\* /search, the limit is in 3..10, and 5 when that word is not a number; whatever
\* the second word of /digest, the number of posts is in 5..200, and 50 when the
\* word is absent, not a number or zero.  The lists read are cut accordingly.
C24_CountsClamped ==
  /\ \A h \in Searches :
       LET last == h.ctx.text[Len(h.ctx.text)]
       IN /\ h.limit \in 3..10
          /\ (last.k # "num" \/ last.n < 0) => h.limit = 5
          /\ (last.k = "num" /\ last.n \in 3..10) => h.limit = last.n
          /\ Len(h.results) <= h.limit
  /\ (ev.op = "digest" /\ ev.lookup) =>
       /\ ev.target \in 5..200
       /\ (ev.word = <<>> \/ ev.word[1].k = "word" \/ ev.word[1].n = 0) => ev.target = 50
       /\ (ev.word # <<>> /\ ev.word[1].k # "word" /\ ev.word[1].n \in 5..200) =>
            ev.target = ev.word[1].n

\* C24 witness: after two other commands, /search asked for 1000 links and
\* kept ten of the twelve results it was given
C24_Witness ==
  /\ \E h \in Searches :
       /\ h.ctx.text[Len(h.ctx.text)] = Num(1000)
       /\ h.limit = 10 /\ Len(h.results) = 10
  /\ ev.op = "search"
  /\ msgSeq["p1"] = 5


\* C25: once /reset has cleared the history of (chat, user), the history holds
\* only turns of messages received after the reset: the reply step of a text
\* handler whose message was received before the reset (its user turn is gone,
\* so the key's history is empty when the reply is stored) leaves the history
\* of that key empty.
C25_StaleReplyKeepsHistoryCleared ==
  [][(/\ ev'.op = "text" /\ ev'.stage = "reply" /\ ~ev'.threw
      /\ count.resets > 0
      /\ HistIn(sessions, ev'.chat, ev'.from) = <<>>)
     => HistIn(sessions', ev'.chat, ev'.from) = <<>>]_vars


\* the entries of a built list between its system messages and its final entry
HistoryPart(msgs) ==
  LET n0 == Cardinality({i \in 1..Len(msgs) : msgs[i].role = "system"})
  IN SubSeq(msgs, n0 + 1, Len(msgs) - 1)

\* C26: in the prompt assembled for an addressed text message the rolling-history
\* part holds only turns that preceded the message (the most recent of the turns
\* pushed to the key before the message's own user turn), so the new user message
\* is in the prompt once, as the final entry.
C26_NewMessageOnlyLast ==
  \A h \in Built :
    LET before == SubSeq(pushed[<<h.ctx.chat, h.ctx.from>>], 1,
                         Len(pushed[<<h.ctx.chat, h.ctx.from>>]) - 1)
    IN /\ HistoryPart(h.msgs) = LastN(before, Len(HistoryPart(h.msgs)))
       /\ Len(HistoryPart(h.msgs)) = Min(Len(before), 16)
       /\ h.msgs[Len(h.msgs)].role = "user"
       /\ \E i \in 1..Len(h.msgs[Len(h.msgs)].content) :
            SubSeq(h.msgs[Len(h.msgs)].content, i, i + Len(h.ctx.text) - 1) = h.ctx.text


\* C28: replyAndStore appends the assistant turn to the session history and to the
\* chat log only after the reply was delivered: a step of replyAndStore whose
\* ctx.reply was rejected changes neither map (and stores no message row).
C28_StoredOnlyAfterDelivery ==
  [][\A h \in inflight :
       (/\ h.pc = "reply" /\ h.op # "search"
        /\ inflight' = inflight \ {h}
        /\ ev'.stage = "reply" /\ ev'.threw)
       => /\ sessions' = sessions
          /\ chatLog' = chatLog
          /\ db'.messages = db.messages]_vars

\* C28 witness: a reply to a text message was rejected by the platform and the
\* newest turn of the key's history and of the chat log is still the user's
C28_Witness ==
  /\ ev.op = "text" /\ ev.stage = "reply" /\ ev.threw
  /\ Len(HistIn(sessions, ev.chat, ev.from)) > 0
  /\ HistIn(sessions, ev.chat, ev.from)[Len(HistIn(sessions, ev.chat, ev.from))].role = "user"
  /\ \A i \in 1..Len(HistIn(sessions, ev.chat, ev.from)) :
       HistIn(sessions, ev.chat, ev.from)[i].role # "assistant"
  /\ \A k \in DOMAIN db.messages : db.messages[k].role # "assistant"


\* C29: a reaction row is stored only for a reaction the platform accepted: a
\* /react command whose setMessageReaction call failed writes no row to the
\* reactions table.
C29_RejectedReactionNotStored ==
  [][(ev'.op = "react" /\ ev'.stage = "warned") => db'.reactions = db.reactions]_vars


\* C30: while the bot's username is still empty the mention test of addressedToMe
\* never matches: a handler started then for a message in a non-private chat is
\* for a message that replies to a bot's message, whatever its text mentions.
C30_NoMentionMatchBeforeStartup ==
  [][botUsername = "" =>
       \A h \in inflight' :
         (/\ \A g \in inflight : g.ctx # h.ctx
          /\ ChatType(h.ctx.chat) # "private")
         => h.ctx.replyToBot]_vars

\* C30 witness: before startup a text that mentions the bot arrived in the group
\* without replying to a bot, was stored, and no handler was started for it
C30_Witness ==
  /\ botUsername = ""
  /\ ev.op = "text" /\ ev.stage = "receive" /\ ChatType(ev.chat) # "private"
  /\ inflight = {}
  /\ <<ev.chat, msgSeq[ev.chat]>> \in DOMAIN db.messages
  /\ Includes(toLowerCase(db.messages[<<ev.chat, msgSeq[ev.chat]>>].content), Mention)

====
